---- MODULE Spec2Model ----
(***************************************************************************)
(* Finite automata engine (tcs-engine): the Automaton class with its       *)
(* primitives (addState, addEdge, delta, accepts) and its constructions    *)
(* (reduce, reverse, makeDeterministic, minimize, union, concat,           *)
(* intersect, star, complete, complement, signatureDFS, equivalent).       *)
(*                                                                         *)
(* A JavaScript string is a sequence of one-character strings, so that     *)
(* concatenation, comparison and sorting of names are computed and never   *)
(* assumed.  A JavaScript Set or Map is a sequence in insertion order.  A  *)
(* State object is identified by its position in the automaton's states.   *)
(***************************************************************************)
EXTENDS Naturals, Integers, Sequences, FiniteSets, TLC

(***************************************************************************)
(* Bounds of the model.                                                    *)
(***************************************************************************)
MaxStates == 2
MaxEdges == 8
MaxPairStates == 2
MaxPairEdges == 1
MaxWordLen == 4

(***************************************************************************)
(* Strings.                                                                *)
(***************************************************************************)
\* The characters the engine's names are made of, in UTF-16 code unit order.
Chars ==
  << " ", ",", "-", "0", "1", "2", "3", "4", "5", "6", "7", "8", "9", ":",
     "A", "B", "C", "D", "E", "F", "G", "H", "I", "J", "K", "L", "M", "N",
     "O", "P", "Q", "R", "S", "T", "U", "V", "W", "X", "Y", "Z",
     "a", "b", "c", "d", "e", "f", "g", "h", "i", "j", "k", "l", "m", "n",
     "o", "p", "q", "r", "s", "t", "u", "v", "w", "x", "y", "z" >>

CodeOf == [c \in {Chars[i] : i \in DOMAIN Chars} |->
             CHOOSE i \in DOMAIN Chars : Chars[i] = c]

\* s1 < s2 for JavaScript strings (lexicographic by code unit).
RECURSIVE StrLess(_, _)
StrLess(s1, s2) ==
  IF s2 = <<>> THEN FALSE
  ELSE IF s1 = <<>> THEN TRUE
  ELSE IF Head(s1) = Head(s2) THEN StrLess(Tail(s1), Tail(s2))
  ELSE CodeOf[Head(s1)] < CodeOf[Head(s2)]

\* Array.prototype.sort() with the default comparison, on distinct or equal strings.
RECURSIVE SortStrings(_)
SortStrings(ss) ==
  IF ss = <<>> THEN <<>>
  ELSE LET i == CHOOSE i \in DOMAIN ss : \A j \in DOMAIN ss : ~StrLess(ss[j], ss[i])
           rest == [k \in 1..(Len(ss) - 1) |-> IF k < i THEN ss[k] ELSE ss[k + 1]]
       IN <<ss[i]>> \o SortStrings(rest)

\* F(x) with x evaluated before the call, as the program evaluates the
\* argument of a call and the receiver of a chained method call.
Call(F(_), x) == CHOOSE r \in {F(y) : y \in {x}} : TRUE

\* Array.prototype.join(sep).
RECURSIVE Join(_, _)
Join(ss, sep) ==
  IF ss = <<>> THEN <<>>
  ELSE IF Len(ss) = 1 THEN ss[1]
  ELSE ss[1] \o sep \o Join(Tail(ss), sep)

\* String(i) for an integer i >= 0.
RECURSIVE DecString(_)
DecString(i) ==
  IF i < 10 THEN <<Chars[4 + i]>>
  ELSE DecString(i \div 10) \o <<Chars[4 + (i % 10)]>>

\* The elements of a sequence, as a set.
Range(s) == {s[i] : i \in DOMAIN s}

\* The sequence s with the elements of t it does not hold yet appended (a Set
\* that receives the elements of t in order).
RECURSIVE AddAll(_, _)
AddAll(s, t) ==
  IF t = <<>> THEN s
  ELSE AddAll(IF Head(t) \in Range(s) THEN s ELSE Append(s, Head(t)), Tail(t))

(***************************************************************************)
(* Base62 (util).                                                          *)
(***************************************************************************)
Base62Digit(r) ==
  IF r < 10 THEN Chars[4 + r]
  ELSE IF r < 36 THEN Chars[15 + (r - 10)]
  ELSE Chars[41 + (r - 36)]

RECURSIVE Base62Digits(_)
Base62Digits(number) ==
  IF number > 0 THEN Base62Digits((number - (number % 62)) \div 62) \o <<Base62Digit(number % 62)>>
  ELSE <<>>

RECURSIVE PadLeft(_, _)
PadLeft(result, totalDigits) ==
  IF Len(result) < totalDigits THEN PadLeft(<<"0">> \o result, totalDigits) ELSE result

\* toBase62 without the left padding.
toBase62Unpadded(number, totalDigits) == Base62Digits(number)

toBase62(number, totalDigits) == PadLeft(Base62Digits(number), totalDigits)

\* Math.floor(Math.log(n) / Math.log(62)) + 1 for n >= 1.
RECURSIVE TotalDigits(_)
TotalDigits(n) == IF n < 62 THEN 1 ELSE 1 + TotalDigits(n \div 62)

(***************************************************************************)
(* State, Edge, Automaton.                                                 *)
(***************************************************************************)
\* new State(name, start, final): an empty name is rewritten to 'empty'.
State(name, start, final) ==
  [name |-> IF name = <<>> THEN <<"e", "m", "p", "t", "y">> ELSE name,
   start |-> start, final |-> final, marked |-> FALSE]

Edge(from, to, symbol) == [source |-> from, sink |-> to, symbol |-> symbol]

DefaultName == <<"A">>
DefaultSymbols == <<"a", "b">>

\* new Automaton(name, symbols).
Automaton(name, symbols) ==
  [name |-> name, symbols |-> symbols, states |-> <<>>,
   stateNameMap |-> <<>>, edges |-> <<>>]

\* The value of an absent state (undefined).
Undefined == 0

getStateByName(a, name) ==
  IF \E i \in DOMAIN a.stateNameMap : a.stateNameMap[i].key = name
  THEN a.stateNameMap[CHOOSE i \in DOMAIN a.stateNameMap : a.stateNameMap[i].key = name].state
  ELSE Undefined

\* Map.prototype.set: the entry of an existing key is overwritten in place.
MapSet(m, key, state) ==
  IF \E i \in DOMAIN m : m[i].key = key
  THEN [i \in DOMAIN m |-> IF m[i].key = key THEN [key |-> key, state |-> state] ELSE m[i]]
  ELSE Append(m, [key |-> key, state |-> state])

MapDelete(m, key) == SelectSeq(m, LAMBDA en : en.key # key)

\* forceNew: append 'x' until the name is free.
RECURSIVE FreeName(_, _)
FreeName(a, name) ==
  IF getStateByName(a, name) # Undefined THEN FreeName(a, name \o <<"x">>) ELSE name

addState(a, name0, start, final, forceNew) ==
  LET name == IF forceNew THEN FreeName(a, name0) ELSE name0
  IN IF getStateByName(a, name) # Undefined THEN a
     ELSE [a EXCEPT !.states = Append(@, State(name, start, final)),
                    !.stateNameMap = MapSet(@, name, Len(a.states) + 1)]

\* The state addState returns.
addStateResult(a, name0, forceNew) ==
  LET name == IF forceNew THEN FreeName(a, name0) ELSE name0
  IN IF getStateByName(a, name) # Undefined THEN getStateByName(a, name)
     ELSE Len(a.states) + 1

edgesOut(a, s) == SelectSeq(a.edges, LAMBDA e : e.source = s)
edgesIn(a, s) == SelectSeq(a.edges, LAMBDA e : e.sink = s)

getEdge(a, from, to, symbol) ==
  \E i \in DOMAIN a.edges :
     a.edges[i].source = from /\ a.edges[i].sink = to /\ a.edges[i].symbol = symbol

\* addEdge on State objects.
addEdge(a, from, to, symbol) ==
  IF getEdge(a, from, to, symbol) THEN a
  ELSE [a EXCEPT !.edges = Append(@, Edge(from, to, symbol))]

\* addEdge on state names.
addEdgeByName(a, fromName, toName, symbol) ==
  addEdge(a, getStateByName(a, fromName), getStateByName(a, toName), symbol)

\* deltaMap.get(symbol).get(state), in insertion order.
deltaSeq(a, state, symbol) ==
  LET es == SelectSeq(a.edges, LAMBDA e : e.source = state /\ e.symbol = symbol)
  IN [i \in DOMAIN es |-> es[i].sink]

delta(a, state, symbol) == Range(deltaSeq(a, state, symbol))

StateIds(a) == DOMAIN a.states
getStartStates(a) == {s \in StateIds(a) : a.states[s].start}
getFinalStates(a) == {s \in StateIds(a) : a.states[s].final}
isEmpty(a) == Len(a.states) = 0

isDeterministic(a) ==
  /\ Cardinality(getStartStates(a)) = 1
  /\ \A s \in StateIds(a) : \A c \in Range(a.symbols) : Cardinality(delta(a, s, c)) <= 1

RECURSIVE deltaStar(_, _, _)
deltaStar(a, currentStates, word) ==
  IF word = <<>> THEN currentStates
  ELSE LET nextStates == UNION {delta(a, from, Head(word)) : from \in currentStates}
       IN IF nextStates = {} THEN {}
          ELSE deltaStar(a, nextStates, Tail(word))

accepts(a, word) ==
  IF isEmpty(a) THEN FALSE
  ELSE \E s \in deltaStar(a, getStartStates(a), word) : a.states[s].final

acceptsEmptyWord(a) == \E s \in getStartStates(a) : a.states[s].final

(***************************************************************************)
(* Literal strings of the source.                                          *)
(***************************************************************************)
StrComma == <<",">>
StrColon == <<":">>
StrErr == <<"e", "r", "r">>
StrZero == <<"0">>
StrOne == <<"1">>
StrTwo == <<"2">>
StrStartfinal == <<"s", "t", "a", "r", "t", "f", "i", "n", "a", "l">>
StrDfa == <<"-", "d", "f", "a">>
StrReducedOf == <<"r", "e", "d", "u", "c", "e", "d", " ", "o", "f", " ">>
StrReverseOf == <<"r", "e", "v", "e", "r", "s", "e", " ", "o", "f", " ">>
StrCopyOf == <<"c", "o", "p", "y", " ", "o", "f", " ">>
StrUnionOf == <<"u", "n", "i", "o", "n", " ", "o", "f", " ">>
StrAnd == <<" ", "a", "n", "d", " ">>
StrConcatenationOf ==
  <<"c", "o", "n", "c", "a", "t", "e", "n", "a", "t", "i", "o", "n", " ", "o", "f", " ">>
StrIntersectionOf ==
  <<"i", "n", "t", "e", "r", "s", "e", "c", "t", "i", "o", "n", " ", "o", "f", " ">>
StrEmptyWord == <<"e", "m", "p", "t", "y", " ", "w", "o", "r", "d">>
StrMinimized == <<"m", "i", "n", "i", "m", "i", "z", "e", "d", " ">>
StrStar == <<"s", "t", "a", "r", " ">>
StrComplementOf == <<"c", "o", "m", "p", "l", "e", "m", "e", "n", "t", " ", "o", "f", " ">>

(***************************************************************************)
(* Folds of addState and addEdge over the states and edges of a source     *)
(* automaton (the forEach loops of the constructions).                     *)
(***************************************************************************)
\* specs: a sequence of [name, start, final].
RECURSIVE addStates(_, _)
addStates(u, specs) ==
  IF specs = <<>> THEN u
  ELSE Call(LAMBDA r : addStates(r, Tail(specs)),
            addState(u, Head(specs).name, Head(specs).start, Head(specs).final, FALSE))

\* specs: a sequence of [from, to, symbol], from and to being state names.
RECURSIVE addEdgesByName(_, _)
addEdgesByName(u, specs) ==
  IF specs = <<>> THEN u
  ELSE Call(LAMBDA r : addEdgesByName(r, Tail(specs)),
            addEdgeByName(u, Head(specs).from, Head(specs).to, Head(specs).symbol))

\* The sequence of the elements of a set of state positions, in states order.
RECURSIVE SeqOfSet(_)
SeqOfSet(S) ==
  IF S = {} THEN <<>>
  ELSE LET m == CHOOSE m \in S : \A n \in S : m <= n
       IN <<m>> \o SeqOfSet(S \ {m})

(***************************************************************************)
(* copy, reverse.                                                          *)
(***************************************************************************)
copy(a) ==
  LET ac == Automaton(StrCopyOf \o a.name, a.symbols)
      ss == [i \in DOMAIN a.states |->
               [name |-> a.states[i].name, start |-> a.states[i].start,
                final |-> a.states[i].final]]
      es == [i \in DOMAIN a.edges |->
               [from |-> a.states[a.edges[i].source].name,
                to |-> a.states[a.edges[i].sink].name,
                symbol |-> a.edges[i].symbol]]
  IN addEdgesByName(addStates(ac, ss), es)

reverse(a) ==
  LET ar == Automaton(StrReverseOf \o a.name, a.symbols)
      ss == [i \in DOMAIN a.states |->
               [name |-> a.states[i].name, start |-> a.states[i].final,
                final |-> a.states[i].start]]
      es == [i \in DOMAIN a.edges |->
               [from |-> a.states[a.edges[i].sink].name,
                to |-> a.states[a.edges[i].source].name,
                symbol |-> a.edges[i].symbol]]
  IN addEdgesByName(addStates(ar, ss), es)

(***************************************************************************)
(* Graph.dfs and reduce.  Graph.dfs sets the marked flag of the states it  *)
(* visits and never clears one: reduce changes the marks of its operand.   *)
(***************************************************************************)
markedSet(a) == {s \in StateIds(a) : a.states[s].marked}

withMarks(a, M) ==
  [a EXCEPT !.states = [s \in DOMAIN a.states |-> [a.states[s] EXCEPT !.marked = (s \in M)]]]

\* marked: the set of marked states; sources: a sequence of states.
RECURSIVE dfs(_, _, _)
RECURSIVE dfsEdges(_, _, _)
dfs(a, marked, sources) ==
  IF sources = <<>> THEN marked
  ELSE Call(LAMBDA m : dfs(a, m, Tail(sources)),
            dfsEdges(a, marked \cup {Head(sources)}, edgesOut(a, Head(sources))))
dfsEdges(a, marked, es) ==
  IF es = <<>> THEN marked
  ELSE Call(LAMBDA m : dfsEdges(a, m, Tail(es)),
            IF Head(es).sink \in marked THEN marked
            ELSE dfs(a, marked, <<Head(es).sink>>))

reduceReturnsEarly(a) ==
  Len(a.states) = 0 \/ getStartStates(a) = {} \/ getFinalStates(a) = {}

\* The operand of reduce, after the call.
reduceMarks(a) ==
  IF reduceReturnsEarly(a) THEN a
  ELSE withMarks(a, dfs(a, markedSet(a), SeqOfSet(getStartStates(a))))

\* The states and edges reduce keeps; fwd, bwd: the states Graph.dfs has
\* marked in a and in aRev.
reduceMarked(a, aRev, fwd, bwd) ==
  LET keep(s) == s \in fwd /\ getStateByName(aRev, a.states[s].name) \in bwd
      ks == SelectSeq([i \in DOMAIN a.states |-> i], keep)
      ss == [i \in DOMAIN ks |->
               [name |-> a.states[ks[i]].name, start |-> a.states[ks[i]].start,
                final |-> a.states[ks[i]].final]]
      ke == SelectSeq(a.edges, LAMBDA e : keep(e.source) /\ keep(e.sink))
      es == [i \in DOMAIN ke |->
               [from |-> a.states[ke[i].source].name,
                to |-> a.states[ke[i].sink].name,
                symbol |-> ke[i].symbol]]
  IN addEdgesByName(addStates(Automaton(StrReducedOf \o a.name, a.symbols), ss), es)

reduceReversed(a, aRev) ==
  reduceMarked(a, aRev, dfs(a, markedSet(a), SeqOfSet(getStartStates(a))),
               dfs(aRev, {}, SeqOfSet(getStartStates(aRev))))

reduce(a) ==
  IF reduceReturnsEarly(a) THEN Automaton(StrReducedOf \o a.name, a.symbols)
  ELSE reduceReversed(a, reverse(a))

(***************************************************************************)
(* Renaming of states.                                                     *)
(***************************************************************************)
renameState(a, s, newName) ==
  [a EXCEPT !.stateNameMap = MapSet(MapDelete(@, a.states[s].name), newName, s),
            !.states[s].name = newName]

\* renameStates(permutation); permutation is a sequence whose i-th entry is
\* the new number of the i-th state, of as many entries as there are states
\* (any other length throws 'permutation error'), or the empty sequence for
\* undefined: the states are numbered in their order then.
RECURSIVE renameStatesFrom(_, _, _)
renameStatesFrom(a, permutation, i) ==
  IF i > Len(a.states) THEN a
  ELSE renameStatesFrom(
         renameState(a, i, IF permutation = <<>> THEN DecString(i - 1)
                           ELSE DecString(permutation[i])),
         permutation, i + 1)

renameStates(a, permutation) == renameStatesFrom(a, permutation, 1)

\* [...edges].sort(Edge.compareBySymbol): stable.
RECURSIVE sortBySymbol(_)
sortBySymbol(es) ==
  IF es = <<>> THEN <<>>
  ELSE LET least(i) == \A j \in DOMAIN es : CodeOf[es[j].symbol] >= CodeOf[es[i].symbol]
           i == CHOOSE i \in DOMAIN es : least(i) /\ \A j \in 1..(i - 1) : ~least(j)
           rest == [k \in 1..(Len(es) - 1) |-> IF k < i THEN es[k] ELSE es[k + 1]]
       IN <<es[i]>> \o sortBySymbol(rest)

\* st = [a, count]: the automaton and the counter of the depth first search.
RECURSIVE renameDfs(_, _, _)
RECURSIVE renameDfsEdges(_, _, _)
renameDfs(st, s, totalDigits) ==
  LET a1 == [st.a EXCEPT !.states[s].marked = TRUE]
      a2 == renameState(a1, s, toBase62(st.count, totalDigits))
  IN renameDfsEdges([a |-> a2, count |-> st.count + 1],
                    sortBySymbol(edgesOut(a2, s)), totalDigits)
renameDfsEdges(st, es, totalDigits) ==
  IF es = <<>> THEN st
  ELSE renameDfsEdges(
         IF st.a.states[Head(es).sink].marked THEN st
         ELSE renameDfs(st, Head(es).sink, totalDigits),
         Tail(es), totalDigits)

\* renameStatesDFS throws when there are states and no start state.
renameStatesDFSThrows(a) == Len(a.states) # 0 /\ getStartStates(a) = {}

renameStatesDFS(a) ==
  IF Len(a.states) = 0 THEN a
  ELSE LET cleared == withMarks(a, {})
       IN IF getStartStates(a) = {} THEN cleared
          ELSE renameDfs([a |-> cleared, count |-> 0],
                         SeqOfSet(getStartStates(a))[1],
                         TotalDigits(Len(a.states))).a

(***************************************************************************)
(* Set.prototype.name on a set of states: the sorted names, joined.        *)
(***************************************************************************)
setName(a, S) ==
  LET ids == SeqOfSet(S)
  IN Join(SortStrings([i \in DOMAIN ids |-> a.states[ids[i]].name]), StrComma)

(***************************************************************************)
(* makeDeterministic: the subset construction.                             *)
(***************************************************************************)
\* [...stateSet].every(s => s.final) in place of some.
everyFinal(nfa, stateSet) == \A q \in stateSet : nfa.states[q].final

\* [...stateSet].some(s => s.final)
someFinal(nfa, stateSet) == \E q \in stateSet : nfa.states[q].final

\* st = [dfa, tags, todo]: tags[s] is tag.stateSet of the state s of dfa.
RECURSIVE subsetSymbols(_, _, _, _)
subsetSymbols(nfa, st, currentState, symbols) ==
  IF symbols = <<>> THEN st
  ELSE
    LET s == Head(symbols)
        nextStatesSet == deltaStar(nfa, st.tags[currentState], <<s>>)
        nextName == setName(nfa, nextStatesSet)
        found == getStateByName(st.dfa, nextName)
        isNew == found = Undefined
        dfa1 == IF isNew
                THEN addState(st.dfa, nextName, FALSE,
                              someFinal(nfa, nextStatesSet), FALSE)
                ELSE st.dfa
        nextState == IF isNew THEN Len(st.dfa.states) + 1 ELSE found
        st1 == [dfa |-> addEdge(dfa1, currentState, nextState, s),
                tags |-> IF isNew THEN Append(st.tags, nextStatesSet) ELSE st.tags,
                todo |-> IF isNew THEN Append(st.todo, nextState) ELSE st.todo]
    IN subsetSymbols(nfa, st1, currentState, Tail(symbols))

RECURSIVE subsetLoop(_, _)
subsetLoop(nfa, st) ==
  IF st.todo = <<>> THEN st.dfa
  ELSE subsetLoop(nfa, subsetSymbols(nfa, [st EXCEPT !.todo = Tail(@)],
                                     Head(st.todo), nfa.symbols))

\* The subset construction from the start state set of nfa.
subsetConstruction(nfa, startStateSet) ==
  subsetLoop(nfa, [dfa |-> addState(Automaton(nfa.name \o StrDfa, nfa.symbols),
                                    setName(nfa, startStateSet), TRUE,
                                    someFinal(nfa, startStateSet), FALSE),
                   tags |-> <<startStateSet>>, todo |-> <<1>>])

\* makeDeterministic from the assignment of nfa on.
makeDeterministicOf(nfa) ==
  IF isDeterministic(nfa) THEN nfa ELSE subsetConstruction(nfa, getStartStates(nfa))

makeDeterministic(a, renameStatesFlag) ==
  IF isEmpty(a) THEN reduce(a)
  ELSE makeDeterministicOf(IF renameStatesFlag THEN renameStates(reduce(a), <<>>)
                           ELSE a)

\* The operand of makeDeterministic, after the call.
makeDeterministicMarks(a, renameStatesFlag) ==
  IF isEmpty(a) \/ renameStatesFlag THEN reduceMarks(a) ELSE a

(***************************************************************************)
(* complete.                                                               *)
(***************************************************************************)
RECURSIVE addLoops(_, _, _)
addLoops(a, s, symbols) ==
  IF symbols = <<>> THEN a
  ELSE Call(LAMBDA r : addLoops(r, s, Tail(symbols)), addEdge(a, s, s, Head(symbols)))

\* The loop over aResult.states and the alphabet; a state added while the
\* loop runs is visited too.  s, k: the positions of the state and symbol.
RECURSIVE completeFrom(_, _, _, _)
completeFrom(aResult, errorState, s, k) ==
  IF s > Len(aResult.states) THEN aResult
  ELSE IF k > Len(aResult.symbols) THEN completeFrom(aResult, errorState, s + 1, 1)
  ELSE IF delta(aResult, s, aResult.symbols[k]) # {} THEN
    completeFrom(aResult, errorState, s, k + 1)
  ELSE
    LET err == IF errorState = Undefined THEN addStateResult(aResult, StrErr, FALSE)
               ELSE errorState
        a1 == IF errorState = Undefined
              THEN addLoops(addState(aResult, StrErr, FALSE, FALSE, FALSE), err,
                            aResult.symbols)
              ELSE aResult
    IN completeFrom(addEdge(a1, s, err, aResult.symbols[k]), err, s, k + 1)

\* complete from the assignment of aResult on.
completeReduced(aResult) ==
  IF Len(aResult.states) = 0
  THEN addLoops(addState(aResult, StrZero, TRUE, FALSE, FALSE), 1, aResult.symbols)
  ELSE completeFrom(aResult, Undefined, 1, 1)

complete(a) == completeReduced(reduce(a))

(***************************************************************************)
(* extendSet: the Set methods used by Hopcroft's algorithm.  A set of      *)
(* states is a sequence without repetition, in insertion order.            *)
(***************************************************************************)
setUnion(this, set) == AddAll(this, set)

setIntersect(this, set) ==
  IF Len(set) > Len(this)
  THEN SelectSeq(this, LAMBDA x : x \in Range(set))
  ELSE SelectSeq(set, LAMBDA x : x \in Range(this))

setDifference(this, set) == SelectSeq(this, LAMBDA x : x \notin Range(set))

setEquals(this, set) == Range(this) = Range(set)

(***************************************************************************)
(* minimizeBrzozowski.                                                     *)
(***************************************************************************)
\* Brzozowski's construction without the determinization of the reversal.
minimizeBrzozowskiOnce(a) ==
  [Call(complete, Call(LAMBDA r : makeDeterministic(r, TRUE), reverse(reverse(a))))
     EXCEPT !.name = StrMinimized \o a.name]

minimizeBrzozowski(a) ==
  [Call(complete,
        Call(LAMBDA r : makeDeterministic(r, TRUE),
             Call(reverse, Call(LAMBDA r : makeDeterministic(r, TRUE), reverse(a)))))
     EXCEPT !.name = StrMinimized \o a.name]

(***************************************************************************)
(* minimizeHopcroft.                                                       *)
(***************************************************************************)
\* state.statesInBySymbol.get(c), as calcStatesInBySymbol fills it.
statesInBySymbol(a, state, c) ==
  LET es == SelectSeq(edgesIn(a, state), LAMBDA e : e.symbol = c)
  IN AddAll(<<>>, [i \in DOMAIN es |-> es[i].source])

\* The union of statesInBySymbol.get(splitterChar) over the states of splitterSet.
RECURSIVE splitterOf(_, _, _, _)
splitterOf(a, splitter, splitterSet, splitterChar) ==
  IF splitterSet = <<>> THEN splitter
  ELSE splitterOf(a, setUnion(splitter, statesInBySymbol(a, Head(splitterSet), splitterChar)),
                  Tail(splitterSet), splitterChar)

\* The update of waitingMap.get(symbol) when part is split into part1 and part2.
waitingUpdate(wm, part, part1, part2, minPart) ==
  IF \E i \in DOMAIN wm : setEquals(wm[i], part)
  THEN LET i == CHOOSE i \in DOMAIN wm :
                  setEquals(wm[i], part) /\ \A j \in 1..(i - 1) : ~setEquals(wm[j], part)
           removed == [k \in 1..(Len(wm) - 1) |-> IF k < i THEN wm[k] ELSE wm[k + 1]]
       IN removed \o <<part1, part2>>
  ELSE Append(wm, minPart)

\* hs = [waitingMap, waitingSetSize, newPartition]: one pass over the partition.
RECURSIVE refineParts(_, _, _, _, _)
refineParts(a, hs, parts, splitterSet, splitterChar) ==
  IF parts = <<>> THEN hs
  ELSE
    LET part == Head(parts)
        splitter == splitterOf(a, <<>>, splitterSet, splitterChar)
        part1 == setIntersect(part, splitter)
        part2 == setDifference(part, splitter)
        minPart == IF Len(part1) < Len(part2) THEN part1 ELSE part2
    IN IF Len(part1) = 0 \/ Len(part2) = 0
       THEN Call(LAMBDA h : refineParts(a, h, Tail(parts), splitterSet, splitterChar),
                 [hs EXCEPT !.newPartition = Append(@, part)])
       ELSE Call(LAMBDA h : refineParts(a, h, Tail(parts), splitterSet, splitterChar),
                 [waitingMap |-> [c \in DOMAIN hs.waitingMap |->
                                    waitingUpdate(hs.waitingMap[c], part, part1, part2,
                                                  minPart)],
                  waitingSetSize |-> hs.waitingSetSize + Len(a.symbols),
                  newPartition |-> hs.newPartition \o <<part1, part2>>])

\* hp = [partition, waitingMap, waitingSetSize]: the while loop.
RECURSIVE hopcroftLoop(_, _)
hopcroftLoop(a, hp) ==
  IF ~(hp.waitingSetSize > 0) THEN hp.partition
  ELSE
    LET i == CHOOSE i \in DOMAIN a.symbols :
               /\ Len(hp.waitingMap[a.symbols[i]]) > 0
               /\ \A j \in 1..(i - 1) : Len(hp.waitingMap[a.symbols[j]]) = 0
        c == a.symbols[i]
        splitterSet == hp.waitingMap[c][1]
        hs == refineParts(a,
                [waitingMap |-> [hp.waitingMap EXCEPT ![c] = Tail(@)],
                 waitingSetSize |-> hp.waitingSetSize - 1,
                 newPartition |-> <<>>],
                hp.partition, splitterSet, c)
    IN hopcroftLoop(a, [partition |-> hs.newPartition, waitingMap |-> hs.waitingMap,
                        waitingSetSize |-> hs.waitingSetSize])

\* The partition into final and non-final states, never refined.
hopcroftPartitionInitial(a) ==
  LET finalStates == SeqOfSet(getFinalStates(a))
  IN <<finalStates, setDifference([i \in DOMAIN a.states |-> i], finalStates)>>

\* The partition of the states of the complete deterministic automaton a.
hopcroftPartition(a) ==
  LET finalStates == SeqOfSet(getFinalStates(a))
      nonFinalStates == setDifference([i \in DOMAIN a.states |-> i], finalStates)
      minSet == IF Len(finalStates) < Len(nonFinalStates) THEN finalStates ELSE nonFinalStates
  IN IF Len(minSet) # 0
     THEN hopcroftLoop(a, [partition |-> <<finalStates, nonFinalStates>>,
                           waitingMap |-> [c \in Range(a.symbols) |-> <<minSet>>],
                           waitingSetSize |-> Len(a.symbols)])
     ELSE <<finalStates, nonFinalStates>>

partName(a, part) == setName(a, Range(part))

\* The part a state belongs to (state.part).
partOf(partition, state) ==
  partition[CHOOSE i \in DOMAIN partition :
              state \in Range(partition[i])
              /\ \A j \in (i + 1)..Len(partition) : state \notin Range(partition[j])]

\* The edges of the merged automaton: for every part and symbol, the edge of
\* the representative state (the last state of the part).
RECURSIVE mergeEdges(_, _, _, _, _)
mergeEdges(aResult, a, partition, p, k) ==
  IF p > Len(partition) THEN aResult
  ELSE IF k > Len(a.symbols) THEN mergeEdges(aResult, a, partition, p + 1, 1)
  ELSE
    LET part == partition[p]
        c == a.symbols[k]
        dmcSize == \E e \in Range(a.edges) : e.symbol = c
        hasRep == part # <<>>
        targets == IF hasRep THEN deltaSeq(a, part[Len(part)], c) ELSE <<>>
    IN IF dmcSize /\ hasRep /\ targets # <<>>
       THEN Call(LAMBDA r : mergeEdges(r, a, partition, p, k + 1),
                 addEdgeByName(aResult, partName(a, part),
                               partName(a, partOf(partition, targets[1])), c))
       ELSE mergeEdges(aResult, a, partition, p, k + 1)

hopcroftMerge(a, partition) ==
  LET ss == [p \in DOMAIN partition |->
               [name |-> partName(a, partition[p]),
                start |-> \E s \in Range(partition[p]) : a.states[s].start,
                final |-> \E s \in Range(partition[p]) : a.states[s].final]]
      aResult == addStates(Automaton(StrMinimized \o a.name, a.symbols), ss)
  IN mergeEdges(aResult, a, partition, 1, 1)

\* minimizeHopcroft from the assignment of a on.
minimizeComplete(a) ==
  IF Len(a.states) < 2 THEN a
  ELSE Call(complete, Call(LAMBDA partition : hopcroftMerge(a, partition),
                           hopcroftPartition(a)))

minimizeHopcroft(this) ==
  Call(minimizeComplete,
       Call(complete,
            Call(renameStatesDFS,
                 Call(LAMBDA r : makeDeterministic(r, TRUE), reduce(this)))))

Hopcroft == "Hopcroft"
Brzozowski == "Brzozowski"

minimize(a, algorithm) ==
  IF algorithm = Brzozowski THEN minimizeBrzozowski(a) ELSE minimizeHopcroft(a)

\* The operand of minimize, after the call.
minimizeMarks(a, algorithm) == IF algorithm = Brzozowski THEN a ELSE reduceMarks(a)

(***************************************************************************)
(* union, concat, intersect.  Each builds an automaton over the default    *)
(* alphabet.                                                               *)
(***************************************************************************)
\* The states and edges of a, their state names prefixed with a.name + ':'.
prefixedStates(a, name, keepStart, keepFinal) ==
  [i \in DOMAIN a.states |->
     [name |-> name \o StrColon \o a.states[i].name,
      start |-> keepStart /\ a.states[i].start,
      final |-> keepFinal /\ a.states[i].final]]

prefixedEdges(a, name) ==
  [i \in DOMAIN a.edges |->
     [from |-> name \o StrColon \o a.states[a.edges[i].source].name,
      to |-> name \o StrColon \o a.states[a.edges[i].sink].name,
      symbol |-> a.edges[i].symbol]]

union(a1, a2) ==
  LET u == Automaton(StrUnionOf \o a1.name \o StrAnd \o a2.name, DefaultSymbols)
  IN addEdgesByName(
       addStates(u, prefixedStates(a1, a1.name, TRUE, TRUE)
                    \o prefixedStates(a2, a2.name, TRUE, TRUE)),
       prefixedEdges(a1, a1.name) \o prefixedEdges(a2, a2.name))

\* The names of the operands of concat after the call; sameObject: a1 and a2
\* are one object, which then gets both suffixes.
concatName1(a1, a2, sameObject) ==
  IF a1.name = a2.name
  THEN IF sameObject THEN a1.name \o StrOne \o StrTwo ELSE a1.name \o StrOne
  ELSE a1.name

concatName2(a1, a2, sameObject) ==
  IF a1.name = a2.name
  THEN IF sameObject THEN a1.name \o StrOne \o StrTwo ELSE a2.name \o StrTwo
  ELSE a2.name

\* The edges from the final states of a1 to the successors of the start states of a2.
bridgeEdges(a1, a2) ==
  LET fs == SeqOfSet(getFinalStates(a1))
      ss == SeqOfSet(getStartStates(a2))
      outOf(s) == LET es == edgesOut(a2, s)
                  IN [i \in DOMAIN es |-> [sink |-> es[i].sink, symbol |-> es[i].symbol]]
      RECURSIVE starts(_)
      starts(rest) == IF rest = <<>> THEN <<>> ELSE outOf(Head(rest)) \o starts(Tail(rest))
      perFinal(f) == LET es == starts(ss)
                     IN [i \in DOMAIN es |->
                           [from |-> a1.name \o StrColon \o a1.states[f].name,
                            to |-> a2.name \o StrColon \o a2.states[es[i].sink].name,
                            symbol |-> es[i].symbol]]
      RECURSIVE finals(_)
      finals(rest) == IF rest = <<>> THEN <<>> ELSE perFinal(Head(rest)) \o finals(Tail(rest))
  IN finals(fs)

concat(this, other, sameObject) ==
  LET a1 == [this EXCEPT !.name = concatName1(this, other, sameObject)]
      a2 == [other EXCEPT !.name = concatName2(this, other, sameObject)]
      ac0 == Automaton(StrConcatenationOf \o a1.name \o StrAnd \o a2.name, DefaultSymbols)
      ac1 == addStates(ac0, prefixedStates(a1, a1.name, TRUE, FALSE)
                            \o prefixedStates(a2, a2.name, FALSE, TRUE))
      ac2 == addEdgesByName(ac1, prefixedEdges(a1, a1.name) \o prefixedEdges(a2, a2.name))
      ac3 == addEdgesByName(ac2, bridgeEdges(a1, a2))
      ac4 == IF acceptsEmptyWord(a1) THEN union(ac3, a2) ELSE ac3
      ac5 == IF acceptsEmptyWord(a2) THEN union(ac4, a1) ELSE ac4
      ew == addState(Automaton(StrEmptyWord, DefaultSymbols), StrOne, TRUE, TRUE, FALSE)
  IN IF acceptsEmptyWord(a1) /\ acceptsEmptyWord(a2) THEN union(ac5, ew) ELSE ac5

intersect(a1, a2) ==
  LET aResult == Automaton(StrIntersectionOf \o a1.name \o StrAnd \o a2.name, DefaultSymbols)
      pairName(n1, n2) == n1 \o StrComma \o n2
      n2s == Len(a2.states)
      ss == [i \in 1..(Len(a1.states) * n2s) |->
               LET s1 == a1.states[((i - 1) \div n2s) + 1]
                   s2 == a2.states[((i - 1) % n2s) + 1]
               IN [name |-> pairName(s1.name, s2.name),
                   start |-> s1.start /\ s2.start, final |-> s1.final /\ s2.final]]
      n2e == Len(a2.edges)
      all == [i \in 1..(Len(a1.edges) * n2e) |->
                LET e1 == a1.edges[((i - 1) \div n2e) + 1]
                    e2 == a2.edges[((i - 1) % n2e) + 1]
                IN [from |-> pairName(a1.states[e1.source].name, a2.states[e2.source].name),
                    to |-> pairName(a1.states[e1.sink].name, a2.states[e2.sink].name),
                    symbol |-> e1.symbol, same |-> e1.symbol = e2.symbol]]
  IN addEdgesByName(addStates(aResult, ss), SelectSeq(all, LAMBDA e : e.same))

\* union, concat and intersect build their result with new Automaton(name):
\* its alphabet is the default one, and its addEdge throws a TypeError for a
\* symbol that is not of it (this.deltaMap.get(symbol) is undefined).
TypeError == [error |-> "TypeError"]

outsideEdge(a0, symbols) ==
  \E i \in DOMAIN a0.edges : a0.edges[i].symbol \notin Range(symbols)

unionThrows(a1, a2) ==
  outsideEdge(a1, DefaultSymbols) \/ outsideEdge(a2, DefaultSymbols)

\* concat adds the edges of both operands before anything else.
concatThrows(a1, a2) == unionThrows(a1, a2)

intersectThrows(a1, a2) ==
  \E i \in DOMAIN a1.edges, j \in DOMAIN a2.edges :
    /\ a1.edges[i].symbol = a2.edges[j].symbol
    /\ a1.edges[i].symbol \notin Range(DefaultSymbols)

(***************************************************************************)
(* star.                                                                   *)
(***************************************************************************)
\* For each edge e of es: addEdge(from, e.sink, e.symbol).
RECURSIVE addEdgesFrom(_, _, _)
addEdgesFrom(a, from, es) ==
  IF es = <<>> THEN a
  ELSE Call(LAMBDA r : addEdgesFrom(r, from, Tail(es)),
            addEdge(a, from, Head(es).sink, Head(es).symbol))

\* For each edge e of es: addEdge(e.source, to, e.symbol).
RECURSIVE addEdgesTo(_, _, _)
addEdgesTo(a, to, es) ==
  IF es = <<>> THEN a
  ELSE Call(LAMBDA r : addEdgesTo(r, to, Tail(es)),
            addEdge(a, Head(es).source, to, Head(es).symbol))

RECURSIVE rewireStarts(_, _, _)
rewireStarts(a, newState, startStates) ==
  IF startStates = <<>> THEN a
  ELSE LET s == Head(startStates)
           a1 == [a EXCEPT !.states[s].start = FALSE]
       IN Call(LAMBDA r : rewireStarts(r, newState, Tail(startStates)),
               addEdgesFrom(a1, newState, edgesOut(a1, s)))

RECURSIVE rewireFinals(_, _, _)
rewireFinals(a, newState, finalStates) ==
  IF finalStates = <<>> THEN a
  ELSE LET s == Head(finalStates)
           a1 == [a EXCEPT !.states[s].final = FALSE]
       IN Call(LAMBDA r : rewireFinals(r, newState, Tail(finalStates)),
               addEdgesTo(a1, newState, edgesIn(a1, s)))

\* star without the edges from the predecessors of the final states back to
\* the new state.
starOnce(a) ==
  LET aResult == reduce(a)
      startStates == SeqOfSet(getStartStates(aResult))
      newStartFinalState == addStateResult(aResult, StrStartfinal, TRUE)
      a1 == addState(aResult, StrStartfinal, TRUE, TRUE, TRUE)
      a2 == rewireStarts(a1, newStartFinalState, startStates)
  IN [reduce(a2) EXCEPT !.name = StrStar \o a.name]

\* star from the assignment of startStates to the second reduce.
starReduced(aResult, startStates, finalStates, newStartFinalState) ==
  rewireFinals(rewireStarts(addState(aResult, StrStartfinal, TRUE, TRUE, TRUE),
                            newStartFinalState, startStates),
               newStartFinalState, finalStates)

starOfReduced(aResult) ==
  starReduced(aResult, SeqOfSet(getStartStates(aResult)),
              SeqOfSet(getFinalStates(aResult)),
              addStateResult(aResult, StrStartfinal, TRUE))

star(a) ==
  [Call(reduce, Call(starOfReduced, reduce(a))) EXCEPT !.name = StrStar \o a.name]

(***************************************************************************)
(* complement.                                                             *)
(***************************************************************************)
\* The final flags flipped without minimizing and completing first.
complementAsIs(a) ==
  LET aResult == copy(a)
  IN [aResult EXCEPT
        !.states = [s \in DOMAIN aResult.states |->
                      [aResult.states[s] EXCEPT !.final = ~aResult.states[s].final]],
        !.name = StrComplementOf \o a.name]

\* aResult.states.forEach(s => (s.final = !s.final)) and the new name.
complementFlipped(aResult, name) ==
  [aResult EXCEPT
     !.states = [s \in DOMAIN aResult.states |->
                   [aResult.states[s] EXCEPT !.final = ~aResult.states[s].final]],
     !.name = StrComplementOf \o name]

complement(a) == complementFlipped(complete(minimize(a, Hopcroft)), a.name)

(***************************************************************************)
(* signatureDFS, equivalent.                                               *)
(***************************************************************************)
\* [...states].sort(State.compareByName): stable.
RECURSIVE sortByName(_, _)
sortByName(a, ss) ==
  IF ss = <<>> THEN <<>>
  ELSE LET least(i) == \A j \in DOMAIN ss :
                          ~StrLess(a.states[ss[j]].name, a.states[ss[i]].name)
           i == CHOOSE i \in DOMAIN ss : least(i) /\ \A j \in 1..(i - 1) : ~least(j)
           rest == [k \in 1..(Len(ss) - 1) |-> IF k < i THEN ss[k] ELSE ss[k + 1]]
       IN <<ss[i]>> \o sortByName(a, rest)

\* The name of the successor of s under sym ('-' when there is none): the
\* last edge of s.edgesOut with that symbol decides.
successorName(a, s, sym) ==
  LET es == SelectSeq(edgesOut(a, s), LAMBDA e : e.symbol = sym)
  IN IF es = <<>> THEN <<"-">> ELSE a.states[es[Len(es)].sink].name

RECURSIVE signatureOfSymbols(_, _, _)
signatureOfSymbols(a, s, symbols) ==
  IF symbols = <<>> THEN <<>>
  ELSE successorName(a, s, Head(symbols)) \o signatureOfSymbols(a, s, Tail(symbols))

RECURSIVE signatureOfStates(_, _)
signatureOfStates(a, ss) ==
  IF ss = <<>> THEN <<>>
  ELSE signatureOfSymbols(a, Head(ss), a.symbols) \o signatureOfStates(a, Tail(ss))

\* The value signatureDFS returns for an automaton that is not deterministic.
NoSignature == <<"undefined">>

\* signatureDFS from the test of isDeterministic on.
signatureRenamed(aResult) ==
  LET ss == sortByName(aResult, [i \in DOMAIN aResult.states |-> i])
      final == [i \in DOMAIN ss |-> IF aResult.states[ss[i]].final THEN "1" ELSE "0"]
  IN IF ~isDeterministic(aResult) THEN NoSignature
     ELSE signatureOfStates(aResult, ss) \o <<"|">> \o final \o <<"|">> \o aResult.symbols

signatureDFS(this) == signatureRenamed(renameStatesDFS(this))

\* The signatures of the determinized automata, not of the minimized ones.
equivalentDeterminized(this, a2) ==
  signatureDFS(makeDeterministic(this, TRUE)) = signatureDFS(makeDeterministic(a2, TRUE))

equivalent(this, a2) ==
  signatureDFS(minimize(this, Hopcroft)) = signatureDFS(minimize(a2, Hopcroft))

(***************************************************************************)
(* constructFromSignature.                                                 *)
(***************************************************************************)
\* String.prototype.split(sep) with a separator of one character.
RECURSIVE split(_, _)
split(str, sep) ==
  IF \E i \in DOMAIN str : str[i] = sep
  THEN LET i == CHOOSE i \in DOMAIN str : str[i] = sep /\ \A j \in 1..(i - 1) : str[j] # sep
       IN <<SubSeq(str, 1, i - 1)>> \o split(SubSeq(str, i + 1, Len(str)), sep)
  ELSE <<str>>

\* Util.fromBase62(str); the code point of a character that is no digit and
\* no upper case letter is taken relative to 'a'.
RECURSIVE fromBase62(_)
fromBase62(str) ==
  IF str = <<>> THEN 0
  ELSE LET digit == str[Len(str)]
           i == CodeOf[digit]
           codePoint == IF i >= 41 THEN 97 + (i - 41)
                        ELSE IF digit = " " THEN 32
                        ELSE IF digit = "," THEN 44
                        ELSE IF digit = "-" THEN 45
                        ELSE 58
       IN 62 * fromBase62(SubSeq(str, 1, Len(str) - 1))
            + (IF i >= 4 /\ i <= 13 THEN i - 4
               ELSE IF i >= 15 /\ i <= 40 THEN (i - 15) + 10
               ELSE (codePoint - 97) + 36)

\* constructFromSignature that takes every state for a final state.
constructFromSignatureFinal(signature) ==
  LET parts == split(signature, "|")
      transitions == parts[1]
      finals == parts[2]
      symbols == parts[3]
      numberStates == Len(finals)
      digitsPerState == TotalDigits(numberStates)
      to(i, j) == SubSeq(transitions,
                         digitsPerState * (i * Len(symbols) + j) + 1,
                         digitsPerState * (i * Len(symbols) + j) + digitsPerState)
      ss == [k \in 1..numberStates |->
               [name |-> toBase62(k - 1, digitsPerState), start |-> k = 1,
                final |-> TRUE]]
      es == [k \in 1..(numberStates * Len(symbols)) |->
               [from |-> toBase62((k - 1) \div Len(symbols), digitsPerState),
                to |-> to((k - 1) \div Len(symbols), (k - 1) % Len(symbols)),
                symbol |-> symbols[((k - 1) % Len(symbols)) + 1]]]
  IN IF Len(parts) # 3 THEN [error |-> "there must be exactly 3 parts"]
     ELSE IF Len(transitions) = 0 \/ Len(finals) = 0 \/ Len(symbols) = 0
     THEN [error |-> "empty part not allowed"]
     ELSE IF digitsPerState * numberStates * Len(symbols) # Len(transitions)
     THEN [error |-> "wrong signature length"]
     ELSE addEdgesByName(
            addStates(Automaton(<<"s", "i", "g", "n", "a", "t", "u", "r", "e", " ">> \o signature,
                                 symbols), ss),
            SelectSeq(es, LAMBDA e : e.to[1] # "-" /\ fromBase62(e.to) < numberStates))

\* Automaton.constructFromSignature(signature): the automaton, or
\* the Error it throws for a signature it rejects.
constructFromSignature(signature) ==
  LET parts == split(signature, "|")
      transitions == parts[1]
      finals == parts[2]
      symbols == parts[3]
      numberStates == Len(finals)
      digitsPerState == TotalDigits(numberStates)
      to(i, j) == SubSeq(transitions,
                         digitsPerState * (i * Len(symbols) + j) + 1,
                         digitsPerState * (i * Len(symbols) + j) + digitsPerState)
      ss == [k \in 1..numberStates |->
               [name |-> toBase62(k - 1, digitsPerState), start |-> k = 1,
                final |-> finals[k] = "1"]]
      es == [k \in 1..(numberStates * Len(symbols)) |->
               [from |-> toBase62((k - 1) \div Len(symbols), digitsPerState),
                to |-> to((k - 1) \div Len(symbols), (k - 1) % Len(symbols)),
                symbol |-> symbols[((k - 1) % Len(symbols)) + 1]]]
  IN IF Len(parts) # 3 THEN [error |-> "there must be exactly 3 parts"]
     ELSE IF Len(transitions) = 0 \/ Len(finals) = 0 \/ Len(symbols) = 0
     THEN [error |-> "empty part not allowed"]
     ELSE IF digitsPerState * numberStates * Len(symbols) # Len(transitions)
     THEN [error |-> "wrong signature length"]
     ELSE addEdgesByName(
            addStates(Automaton(<<"s", "i", "g", "n", "a", "t", "u", "r", "e", " ">> \o signature,
                                 symbols), ss),
            SelectSeq(es, LAMBDA e : e.to[1] # "-" /\ fromBase62(e.to) < numberStates))

(***************************************************************************)
(* isomorphic.                                                             *)
(***************************************************************************)
\* Util.permutations(number) for number >= 1: the permutations of
\* 0..number-1 in the order the generator yields them.
RECURSIVE permutations(_)
permutations(number) ==
  IF number = 1 THEN << <<0>> >>
  ELSE LET perms == permutations(number - 1)
       IN [k \in 1..(Len(perms) * number) |->
             LET p == perms[((k - 1) \div number) + 1]
                 i == (k - 1) % number
             IN SubSeq(p, 1, i) \o <<number - 1>> \o SubSeq(p, i + 1, Len(p))]

\* a1.isomorphic(a2): [value |-> true or false], or the Error that
\* Util.permutations throws for a number that is not positive.
isomorphic(a1, a2) ==
  LET numberStates == Len(a1.states)
      sorted(symbols) ==
        Join(SortStrings([i \in DOMAIN symbols |-> <<symbols[i]>>]), <<>>)
      checkIso(p) ==
        /\ \A i \in 1..numberStates :
             /\ a1.states[i].start = a2.states[p[i] + 1].start
             /\ a1.states[i].final = a2.states[p[i] + 1].final
        /\ \A k \in DOMAIN a1.edges :
             getEdge(a2, p[a1.edges[k].source] + 1, p[a1.edges[k].sink] + 1,
                     a1.edges[k].symbol)
  IN IF \/ Len(a1.states) # Len(a2.states)
        \/ Len(a1.edges) # Len(a2.edges)
        \/ Cardinality(getStartStates(a1)) # Cardinality(getStartStates(a2))
        \/ Cardinality(getFinalStates(a1)) # Cardinality(getFinalStates(a2))
        \/ sorted(a1.symbols) # sorted(a2.symbols)
     THEN [value |-> FALSE]
     ELSE IF numberStates <= 0 THEN [error |-> "must be positive"]
     ELSE [value |-> \E k \in DOMAIN permutations(numberStates) :
                       checkIso(permutations(numberStates)[k])]

(***************************************************************************)
(* Regular expressions.  A RegularExpression object is its position in rs, *)
(* the sequence of the objects created so far, so that an operand used     *)
(* twice is one object; its children are positions too.                    *)
(***************************************************************************)
EMPTY == 0
WORD == 1
STAR == 2
SUM == 3
CONCAT == 4

\* Sample.onlyEmptyWord().
onlyEmptyWord == addState(Automaton(StrEmptyWord, DefaultSymbols), StrOne, TRUE, TRUE, FALSE)

\* Sample.onlyWord(w).
onlyWord(w) ==
  addEdgesByName(
    addStates(Automaton(w, DefaultSymbols),
              [k \in 1..(Len(w) + 1) |->
                 [name |-> DecString(k - 1), start |-> k = 1, final |-> k = Len(w) + 1]]),
    [k \in 1..Len(w) |->
       [from |-> DecString(k - 1), to |-> DecString(k), symbol |-> w[k]]])

\* a.minimize().renameStates().
minimizeRenameStates(a1) ==
  Call(LAMBDA m : renameStates(m, <<>>), minimize(a1, Hopcroft))

\* The automaton a STAR, SUM or CONCAT object builds from the ones of its
\* operands, before minimize().renameStates().
operatorAutomaton(rs, type, r1, r2) ==
  IF type = STAR THEN star(rs[r1].equivalentAutomaton)
  ELSE IF type = SUM
  THEN union(rs[r1].equivalentAutomaton, rs[r2].equivalentAutomaton)
  ELSE concat(rs[r1].equivalentAutomaton, rs[r2].equivalentAutomaton, r1 = r2)

\* rs once the STAR, SUM or CONCAT object is built: star marks the states of
\* its operand and concat renames its operands.
operandsOf(rs, type, r1, r2) ==
  IF type = STAR THEN [rs EXCEPT ![r1].equivalentAutomaton = reduceMarks(@)]
  ELSE IF type = SUM THEN rs
  ELSE [rs EXCEPT
          ![r1].equivalentAutomaton.name =
            concatName1(rs[r1].equivalentAutomaton, rs[r2].equivalentAutomaton, r1 = r2),
          ![r2].equivalentAutomaton.name =
            concatName2(rs[r1].equivalentAutomaton, rs[r2].equivalentAutomaton, r1 = r2)]

\* new RegularExpression(type, r1, r2): rs with the new object appended.  r1
\* is the word when type is WORD (the constructor called with a string).
\* star marks the states of its operand and concat renames its operands, so
\* the equivalentAutomaton of an operand changes with them.
RegularExpression(rs, type, r1, r2) ==
  IF type = EMPTY
  THEN Append(rs, [type |-> EMPTY, word |-> <<>>, star |-> Undefined, left |-> Undefined,
                   right |-> Undefined,
                   equivalentAutomaton |-> Automaton(DefaultName, DefaultSymbols)])
  ELSE IF type = WORD
  THEN Append(rs, [type |-> WORD, word |-> IF r1 = <<"E">> THEN <<>> ELSE r1,
                   star |-> Undefined, left |-> Undefined, right |-> Undefined,
                   equivalentAutomaton |->
                     IF r1 = <<"E">> THEN onlyEmptyWord ELSE onlyWord(r1)])
  ELSE Append(operandsOf(rs, type, r1, r2),
              [type |-> type, word |-> <<>>,
               star |-> IF type = STAR THEN r1 ELSE Undefined,
               left |-> IF type = STAR THEN Undefined ELSE r1,
               right |-> IF type = STAR THEN Undefined ELSE r2,
               equivalentAutomaton |->
                 Call(minimizeRenameStates, operatorAutomaton(rs, type, r1, r2))])

\* this.concat(r): [rs, re], re being the object returned; an operand that
\* is the empty word makes concat return the other operand itself.
regexpConcat(rs, this, r) ==
  IF rs[this].type = WORD /\ rs[this].word = <<>> THEN [rs |-> rs, re |-> r]
  ELSE IF rs[r].type = WORD /\ rs[r].word = <<>> THEN [rs |-> rs, re |-> this]
  ELSE [rs |-> RegularExpression(rs, CONCAT, this, r), re |-> Len(rs) + 1]

(***************************************************************************)
(* RegularExpression.parse.  The token types of the tokenizer; a token is  *)
(* [type, value].  tokenize gives [tokens] or, for a throw, [error]; the   *)
(* functions of the recursive descent give [rs, pos, re], the objects      *)
(* created, the position in the tokens and the object returned, or [error]. *)
(***************************************************************************)
LPAREN == 1
RPAREN == 2
RPARENSTAR == 22
PLUS == 3
WORDTOKEN == 4
CHARSTAR == 5
EPS == 6
RENULL == 7
END == 8

RECURSIVE tokenizeFrom(_, _, _, _)
RECURSIVE tokenizeWord(_, _, _, _, _)
\* The default case of tokenize: the word collected from input[i] on.
tokenizeWord(input, i, word, tokens, symbols) ==
  IF i <= Len(input) /\ input[i] \in Range(symbols)
  THEN IF i + 1 <= Len(input) /\ input[i + 1] = "*"
       THEN tokenizeFrom(input, i + 2,
                         Append(IF word # <<>>
                                THEN Append(tokens, [type |-> WORDTOKEN, value |-> word])
                                ELSE tokens,
                                [type |-> CHARSTAR, value |-> <<input[i]>>]),
                         symbols)
       ELSE tokenizeWord(input, i + 1, Append(word, input[i]), tokens, symbols)
  ELSE tokenizeFrom(input, i,
                    IF word # <<>>
                    THEN Append(tokens, [type |-> WORDTOKEN, value |-> word])
                    ELSE tokens,
                    symbols)

\* The loop of tokenize from position i, input being the string with '$'
\* appended.
tokenizeFrom(input, i, tokens, symbols) ==
  IF i > Len(input) THEN [tokens |-> tokens]
  ELSE IF input[i] = "("
  THEN tokenizeFrom(input, i + 1, Append(tokens, [type |-> LPAREN, value |-> <<"(">>]), symbols)
  ELSE IF input[i] = ")"
  THEN IF i + 1 <= Len(input) /\ input[i + 1] = "*"
       THEN tokenizeFrom(input, i + 2,
                         Append(tokens, [type |-> RPARENSTAR, value |-> <<")">>]), symbols)
       ELSE tokenizeFrom(input, i + 1,
                         Append(tokens, [type |-> RPAREN, value |-> <<")">>]), symbols)
  ELSE IF input[i] = "+"
  THEN tokenizeFrom(input, i + 1, Append(tokens, [type |-> PLUS, value |-> <<"+">>]), symbols)
  ELSE IF input[i] \in {"E", "1"}
  THEN tokenizeFrom(input, i + 1, Append(tokens, [type |-> EPS, value |-> <<>>]), symbols)
  ELSE IF input[i] = "0"
  THEN tokenizeFrom(input, i + 1, Append(tokens, [type |-> RENULL, value |-> <<"0">>]), symbols)
  ELSE IF input[i] = "$"
  THEN tokenizeFrom(input, i + 1, Append(tokens, [type |-> END, value |-> <<>>]), symbols)
  ELSE IF input[i] \notin Range(symbols)
  THEN [error |-> "re lex: unexpected character", char |-> input[i]]
  ELSE tokenizeWord(input, i, <<>>, tokens, symbols)

tokenize(input, symbols) == tokenizeFrom(Append(input, "$"), 1, <<>>, symbols)

RECURSIVE factor(_, _, _)
RECURSIVE product(_, _, _)
RECURSIVE re(_, _, _)
\* factor after '(' and the re() f that follows it.
factorParen(tokens, f) ==
  IF "error" \in DOMAIN f THEN f
  ELSE IF tokens[f.pos].type = RPAREN THEN [f EXCEPT !.pos = @ + 1]
  ELSE IF tokens[f.pos].type = RPARENSTAR
  THEN [rs |-> RegularExpression(f.rs, STAR, f.re, Undefined), pos |-> f.pos + 1,
        re |-> Len(f.rs) + 1]
  ELSE [error |-> "re factor1: unexpected token", token |-> tokens[f.pos].type]

factor(tokens, pos, rs) ==
  IF tokens[pos].type = LPAREN THEN factorParen(tokens, re(tokens, pos + 1, rs))
  ELSE IF tokens[pos].type = WORDTOKEN
  THEN [rs |-> RegularExpression(rs, WORD, tokens[pos].value, Undefined), pos |-> pos + 1,
        re |-> Len(rs) + 1]
  ELSE IF tokens[pos].type = CHARSTAR
  THEN [rs |-> RegularExpression(RegularExpression(rs, WORD, tokens[pos].value, Undefined),
                                 STAR, Len(rs) + 1, Undefined),
        pos |-> pos + 1, re |-> Len(rs) + 2]
  ELSE IF tokens[pos].type = EPS
  THEN [rs |-> RegularExpression(rs, WORD, <<>>, Undefined), pos |-> pos + 1,
        re |-> Len(rs) + 1]
  ELSE [error |-> "re factor2: unexpected token", token |-> tokens[pos].type]

\* product after its factor f and, where one follows, its product p.
productConcat(f, p) ==
  IF "error" \in DOMAIN p THEN p
  ELSE [rs |-> regexpConcat(p.rs, f.re, p.re).rs, pos |-> p.pos,
        re |-> regexpConcat(p.rs, f.re, p.re).re]

productFactor(tokens, f) ==
  IF "error" \in DOMAIN f THEN f
  ELSE IF tokens[f.pos].type \in {END, PLUS, RPAREN, RPARENSTAR} THEN f
  ELSE productConcat(f, product(tokens, f.pos, f.rs))

product(tokens, pos, rs) == productFactor(tokens, factor(tokens, pos, rs))

\* re after its product left and, where '+' follows, its re right.
reSum(left, right) ==
  IF "error" \in DOMAIN right THEN right
  ELSE [rs |-> RegularExpression(right.rs, SUM, left.re, right.re), pos |-> right.pos,
        re |-> Len(right.rs) + 1]

reProduct(tokens, left) ==
  IF "error" \in DOMAIN left THEN left
  ELSE IF tokens[left.pos].type \in {END, RPAREN, RPARENSTAR} THEN left
  ELSE IF tokens[left.pos].type = PLUS
  THEN reSum(left, re(tokens, left.pos + 1, left.rs))
  ELSE [error |-> "re: unexpected token", token |-> tokens[left.pos].type]

re(tokens, pos, rs) == reProduct(tokens, product(tokens, pos, rs))

\* parse after tokenize.
parseTokens(t) == IF "error" \in DOMAIN t THEN t ELSE re(t.tokens, 1, <<>>)

\* reString after the two replace calls of parse: white space is removed
\* and '.' replaced by the sum of the symbols.
replaced(reString, symbols) ==
  Join([i \in DOMAIN SelectSeq(reString, LAMBDA c : c # " ") |->
          IF SelectSeq(reString, LAMBDA c : c # " ")[i] = "."
          THEN <<"(">> \o Join([k \in DOMAIN symbols |-> <<symbols[k]>>], <<"+">>)
               \o <<")">>
          ELSE <<SelectSeq(reString, LAMBDA c : c # " ")[i]>>],
       <<>>)

\* RegularExpression.parse(reString, symbols): the string is tokenized after
\* the replacements, and what re() returns is returned.
parse(reString, symbols) ==
  parseTokens(tokenize(replaced(reString, symbols), symbols))

(***************************************************************************)
(* memo(f) and memoMap(f): the cache of the function returned is a sequence *)
(* of [key, value] in the order of insertion.  The function is called on   *)
(* a0 with word and gives [cache, value], the cache after the call and the *)
(* value returned.                                                         *)
(***************************************************************************)
cacheHas(cache, key) == \E i \in DOMAIN cache : cache[i].key = key

cacheGet(cache, key) == cache[CHOOSE i \in DOMAIN cache : cache[i].key = key].value

\* cache[key] = value, cache.set(key, value).
cacheSet(cache, key, value) == Append(cache, [key |-> key, value |-> value])

\* a0.acceptsMemo(word), acceptsMemo being memo(Automaton.prototype.accepts).
memo(cache, a0, word) ==
  IF cacheHas(cache, word) THEN [cache |-> cache, value |-> cacheGet(cache, word)]
  ELSE [cache |-> cacheSet(cache, word, accepts(a0, word)), value |-> accepts(a0, word)]

\* a0.acceptsMemoMap(word), acceptsMemoMap being
\* memoMap(Automaton.prototype.accepts).
memoMap(cache, a0, word) ==
  IF cacheHas(cache, word) THEN [cache |-> cache, value |-> cacheGet(cache, word)]
  ELSE [cache |-> cacheSet(cache, word, accepts(a0, word)), value |-> accepts(a0, word)]

(***************************************************************************)
(* Words and languages.                                                    *)
(***************************************************************************)
\* The words over the symbols of at most n letters.
RECURSIVE WordsUpTo(_, _)
WordsUpTo(symbols, n) ==
  IF n = 0 THEN {<<>>}
  ELSE LET shorter == WordsUpTo(symbols, n - 1)
       IN shorter \cup {Append(w, c) : w \in shorter, c \in Range(symbols)}

Words == WordsUpTo(DefaultSymbols, MaxWordLen)

(***************************************************************************)
(* The program: an automaton a is built with addState and addEdge, then    *)
(* one of the constructions is applied to it; res is what it returns.  In  *)
(* SpecPair a second automaton b is built too and a construction with two  *)
(* operands is applied.                                                    *)
(***************************************************************************)
VARIABLES a, b, op, res

vars == <<a, b, op, res>>

NoResult == <<>>

\* The position of an edge in the order in which the edges are added.
edgeRank(a0, e) ==
  ((e.source * (Len(a0.states) + 1)) + e.sink) * (Len(a0.symbols) + 1)
    + (CHOOSE k \in DOMAIN a0.symbols : a0.symbols[k] = e.symbol)

\* addState(name, start, final) with the next free name of the naming scheme.
addNextState(a0, name, maxStates) ==
  /\ Len(a0.states) < maxStates
  /\ getStateByName(a0, name) = Undefined

\* The edges addEdge may add to a0: new ones, after those it holds.
newEdges(a0, maxEdges) ==
  IF Len(a0.edges) < maxEdges
  THEN {e \in {Edge(from, to, symbol) : from \in StateIds(a0), to \in StateIds(a0),
                                        symbol \in Range(a0.symbols)} :
          \A i \in DOMAIN a0.edges : edgeRank(a0, a0.edges[i]) < edgeRank(a0, e)}
  ELSE {}

Init ==
  /\ a = Automaton(DefaultName, DefaultSymbols)
  /\ b = Automaton(DefaultName, DefaultSymbols)
  /\ op = "build"
  /\ res = NoResult

\* The names of the states of a: '0', '1', ...
Names == {DecString(i) : i \in 0..(MaxStates - 1)}

\* a.addState(name, start, final) with a name that is free.
AddState ==
  /\ op = "build"
  /\ \E name \in Names, start \in BOOLEAN, final \in BOOLEAN :
       /\ addNextState(a, name, MaxStates)
       /\ a' = addState(a, name, start, final, FALSE)
  /\ UNCHANGED <<b, op, res>>

\* a.addEdge(from, to, symbol).
AddEdge ==
  /\ op = "build"
  /\ \E e \in newEdges(a, MaxEdges) : a' = addEdge(a, e.source, e.sink, e.symbol)
  /\ UNCHANGED <<b, op, res>>

\* res = a.makeDeterministic().
MakeDeterministic ==
  /\ op = "build"
  /\ op' = "makeDeterministic"
  /\ res' = makeDeterministic(a, TRUE)
  /\ a' = makeDeterministicMarks(a, TRUE)
  /\ UNCHANGED b

\* res = a.minimize(algorithm).
Minimize ==
  /\ op = "build"
  /\ \E algorithm \in {Hopcroft, Brzozowski} :
       /\ op' = algorithm
       /\ res' = minimize(a, algorithm)
       /\ a' = minimizeMarks(a, algorithm)
  /\ UNCHANGED b

\* The test 'minimize': aBrz = a.minimize('Brzozowski'), aHop =
\* a.minimize('Hopcroft'), res = aBrz.equivalent(aHop).
minimizeBoth(aBrz, aHop) ==
  [equivalent |-> equivalent(aBrz, aHop),
   signatureBrz |-> signatureDFS(aBrz),
   signatureHop |-> signatureDFS(aHop)]

MinimizeBoth ==
  /\ op = "build"
  /\ op' = "minimizeBoth"
  /\ res' = minimizeBoth(minimize(a, Brzozowski), minimize(a, Hopcroft))
  /\ a' = minimizeMarks(a, Hopcroft)
  /\ UNCHANGED b

\* The test 'constructFromSignature': siga = a.minimize(algorithm)
\* .signatureDFS(), res = Automaton.constructFromSignature(siga).
ConstructFromSignature ==
  /\ op = "build"
  /\ \E algorithm \in {Hopcroft, Brzozowski} :
       /\ res' = [signature |-> signatureDFS(minimize(a, algorithm)),
                  constructed |->
                    constructFromSignature(signatureDFS(minimize(a, algorithm)))]
       /\ a' = minimizeMarks(a, algorithm)
  /\ op' = "constructFromSignature"
  /\ UNCHANGED b

\* The test 'ismorphic': a2 = a.copy().renameStates(p) for a permutation p
\* of 0..|states|-1, res = a.isomorphic(a2).  isomorphic sorts the symbols
\* of both alphabets in place.
Isomorphic ==
  /\ op = "build"
  /\ \E p \in IF Len(a.states) = 0 THEN {<<>>} ELSE Range(permutations(Len(a.states))) :
       res' = isomorphic(a, renameStates(copy(a), p))
  /\ op' = "isomorphic"
  /\ a' = [a EXCEPT !.symbols =
                      Join(SortStrings([i \in DOMAIN a.symbols |-> <<a.symbols[i]>>]), <<>>)]
  /\ UNCHANGED b

\* res = a.star().
Star ==
  /\ op = "build"
  /\ op' = "star"
  /\ res' = star(a)
  /\ a' = reduceMarks(a)
  /\ UNCHANGED b

\* res = a.complement().
Complement ==
  /\ op = "build"
  /\ op' = "complement"
  /\ res' = complement(a)
  /\ a' = minimizeMarks(a, Hopcroft)
  /\ UNCHANGED b

Next ==
  \/ AddState
  \/ AddEdge
  \/ MakeDeterministic
  \/ Minimize
  \/ MinimizeBoth
  \/ ConstructFromSignature
  \/ Isomorphic
  \/ Star
  \/ Complement

Spec == Init /\ [][Next]_vars

(***************************************************************************)
(* SpecPair: two automata a and b are built, then a construction with two  *)
(* operands is applied.  The i-th state of each is named '0', '0,0', ...   *)
(***************************************************************************)
RECURSIVE CommaName(_)
CommaName(i) == IF i <= 1 THEN StrZero ELSE CommaName(i - 1) \o StrComma \o StrZero

InitPair ==
  /\ a = Automaton(DefaultName, DefaultSymbols)
  /\ b \in {Automaton(DefaultName, DefaultSymbols), Automaton(<<"B">>, DefaultSymbols)}
  /\ op = "build"
  /\ res = NoResult

PairAddStateA ==
  /\ op = "build"
  /\ addNextState(a, CommaName(Len(a.states) + 1), MaxPairStates)
  /\ \E start \in BOOLEAN, final \in BOOLEAN :
       a' = addState(a, CommaName(Len(a.states) + 1), start, final, FALSE)
  /\ UNCHANGED <<b, op, res>>

PairAddEdgeA ==
  /\ op = "build"
  /\ \E e \in newEdges(a, MaxPairEdges) : a' = addEdge(a, e.source, e.sink, e.symbol)
  /\ UNCHANGED <<b, op, res>>

PairAddStateB ==
  /\ op = "build"
  /\ addNextState(b, CommaName(Len(b.states) + 1), MaxPairStates)
  /\ \E start \in BOOLEAN, final \in BOOLEAN :
       b' = addState(b, CommaName(Len(b.states) + 1), start, final, FALSE)
  /\ UNCHANGED <<a, op, res>>

PairAddEdgeB ==
  /\ op = "build"
  /\ \E e \in newEdges(b, MaxPairEdges) : b' = addEdge(b, e.source, e.sink, e.symbol)
  /\ UNCHANGED <<a, op, res>>

\* res = a.equivalent(b).
Equivalent ==
  /\ op = "build"
  /\ op' = "equivalent"
  /\ res' = equivalent(a, b)
  /\ a' = minimizeMarks(a, Hopcroft)
  /\ b' = minimizeMarks(b, Hopcroft)

\* res = a.union(b).
Union ==
  /\ op = "build"
  /\ op' = "union"
  /\ res' = IF unionThrows(a, b) THEN TypeError ELSE union(a, b)
  /\ UNCHANGED <<a, b>>

\* res = a.concat(b), a and b being two objects.
Concat ==
  /\ op = "build"
  /\ op' = "concat"
  /\ res' = IF concatThrows(a, b) THEN TypeError ELSE concat(a, b, FALSE)
  /\ a' = [a EXCEPT !.name = concatName1(a, b, FALSE)]
  /\ b' = [b EXCEPT !.name = concatName2(a, b, FALSE)]

\* res = a.concat(a).
ConcatSelf ==
  /\ op = "build"
  /\ op' = "concatSelf"
  /\ res' = concat(a, a, TRUE)
  /\ a' = [a EXCEPT !.name = concatName1(a, a, TRUE)]
  /\ UNCHANGED b

\* res = a.intersect(b).
Intersect ==
  /\ op = "build"
  /\ op' = "intersect"
  /\ res' = IF intersectThrows(a, b) THEN TypeError ELSE intersect(a, b)
  /\ UNCHANGED <<a, b>>

NextPair ==
  \/ PairAddStateA
  \/ PairAddEdgeA
  \/ PairAddStateB
  \/ PairAddEdgeB
  \/ Equivalent
  \/ Union
  \/ Concat
  \/ ConcatSelf
  \/ Intersect

SpecPair == InitPair /\ [][NextPair]_vars

(***************************************************************************)
(* The automaton with the indexes the code keeps beside states and edges:  *)
(* stateNameMap, deltaMap and every state's edgesOut and edgesIn.  A State *)
(* or Edge object is its position in stateObjects or edgeObjects; a        *)
(* deleted object keeps its position, so a stale reference stays visible.  *)
(* deltaMap[symbol] is a Map from a State to the Set of its successors: a  *)
(* sequence of [key, value] in insertion order.                            *)
(***************************************************************************)
ObjectAutomaton(name, symbols) ==
  [name |-> name, symbols |-> symbols, states |-> <<>>, stateNameMap |-> <<>>,
   edges |-> <<>>, deltaMap |-> [c \in Range(symbols) |-> <<>>],
   stateObjects |-> <<>>, edgeObjects |-> <<>>]

\* addState: new State(name, start, final) has empty edgesOut and edgesIn;
\* the key in stateNameMap is the name as given.
objectAddState(o, name0, start, final, forceNew) ==
  LET name == IF forceNew THEN FreeName(o, name0) ELSE name0
      s == Len(o.stateObjects) + 1
  IN IF getStateByName(o, name) # Undefined THEN o
     ELSE [o EXCEPT !.stateObjects =
                      Append(@, [name |-> State(name, start, final).name,
                                 start |-> start, final |-> final,
                                 edgesOut |-> <<>>, edgesIn |-> <<>>]),
                    !.states = Append(@, s),
                    !.stateNameMap = MapSet(@, name, s)]

\* getEdge(from, to, symbol) on State objects: the edge or undefined.
objectGetEdge(o, from, to, symbol) ==
  LET es == SelectSeq(o.stateObjects[from].edgesOut,
                      LAMBDA e : o.edgeObjects[e].symbol = symbol
                                 /\ o.edgeObjects[e].sink = to)
  IN IF es = <<>> THEN Undefined ELSE es[1]

\* addEdge(from, to, symbol) on State objects.  It throws a TypeError in
\* getEdge when from is undefined (nothing is changed by then), in
\* deltaMap.get(symbol).has when the symbol is not one of the alphabet (the
\* edge is in edges by then) and in e.sink.addEdgeIn when to is undefined
\* (the edge is in edges, in deltaMap and in the source's edgesOut by then).
objectAddEdgeStates(o, from, to, symbol) ==
  LET e == Len(o.edgeObjects) + 1
      m == o.deltaMap[symbol]
      added ==
        [o EXCEPT !.edgeObjects = Append(@, Edge(from, to, symbol)),
                  !.edges = Append(@, e),
                  !.deltaMap[symbol] =
                    IF \E i \in DOMAIN m : m[i].key = from
                    THEN [i \in DOMAIN m |->
                            IF m[i].key = from /\ to \notin Range(m[i].value)
                            THEN [key |-> from, value |-> Append(m[i].value, to)]
                            ELSE m[i]]
                    ELSE Append(m, [key |-> from, value |-> <<to>>]),
                  !.stateObjects[from].edgesOut = Append(@, e)]
  IN IF from = Undefined THEN o
     ELSE IF objectGetEdge(o, from, to, symbol) # Undefined THEN o
     ELSE IF symbol \notin Range(o.symbols)
     THEN [o EXCEPT !.edgeObjects = Append(@, Edge(from, to, symbol)),
                    !.edges = Append(@, e)]
     ELSE IF to = Undefined THEN added
     ELSE [added EXCEPT !.stateObjects[to].edgesIn = Append(@, e)]

\* Whether addEdge(from, to, symbol) on State objects throws.
objectAddEdgeThrows(o, from, to, symbol) ==
  \/ from = Undefined
  \/ /\ objectGetEdge(o, from, to, symbol) = Undefined
     /\ (symbol \notin Range(o.symbols) \/ to = Undefined)

\* addEdge(from, to, symbol) with the names of states: getState resolves them.
objectAddEdge(o, fromName, toName, symbol) ==
  objectAddEdgeStates(o, getStateByName(o, fromName), getStateByName(o, toName), symbol)

\* deleteEdge(e).  It throws a TypeError in e.sink.edgesIn when e.sink is
\* undefined, after the three other deletions.
objectDeleteEdge(o, e) ==
  LET source == o.edgeObjects[e].source
      sink == o.edgeObjects[e].sink
      m == o.deltaMap[o.edgeObjects[e].symbol]
      deleted ==
        [o EXCEPT !.edges = SelectSeq(@, LAMBDA x : x # e),
                  !.deltaMap[o.edgeObjects[e].symbol] =
                    [i \in DOMAIN m |->
                       IF m[i].key = source
                       THEN [key |-> source,
                             value |-> SelectSeq(m[i].value, LAMBDA s : s # sink)]
                       ELSE m[i]],
                  !.stateObjects[source].edgesOut = SelectSeq(@, LAMBDA x : x # e)]
  IN IF sink = Undefined THEN deleted
     ELSE [deleted EXCEPT !.stateObjects[sink].edgesIn = SelectSeq(@, LAMBDA x : x # e)]

\* deleteEdgeFts(from, to, symbol) with the names of states.  It throws
\* when from is undefined or when there is no such edge; nothing is changed.
objectDeleteEdgeFts(o, fromName, toName, symbol) ==
  LET from == getStateByName(o, fromName)
      to == getStateByName(o, toName)
  IN IF from = Undefined THEN o
     ELSE IF objectGetEdge(o, from, to, symbol) = Undefined THEN o
     ELSE objectDeleteEdge(o, objectGetEdge(o, from, to, symbol))

\* for (const e of es) a.deleteEdge(e), on r = [o, thrown]: the loop ends
\* at the first deleteEdge that throws.
RECURSIVE objectDeleteEdges(_, _)
objectDeleteEdges(r, es) ==
  IF es = <<>> \/ r.thrown THEN r
  ELSE objectDeleteEdges([o |-> objectDeleteEdge(r.o, Head(es)),
                          thrown |-> r.o.edgeObjects[Head(es)].sink = Undefined],
                         Tail(es))

\* deleteState(state) on s = getState(state): r = [o, thrown].  The edges of
\* s.edgesIn are deleted, then those left in s.edgesOut, then the key s.name
\* of stateNameMap and s itself.  It throws when s is undefined.
objectDeleteState(o, s) ==
  LET r1 == objectDeleteEdges([o |-> o, thrown |-> FALSE], o.stateObjects[s].edgesIn)
      r2 == objectDeleteEdges(r1, r1.o.stateObjects[s].edgesOut)
  IN IF s = Undefined THEN [o |-> o, thrown |-> TRUE]
     ELSE IF r2.thrown THEN r2
     ELSE [o |-> [r2.o EXCEPT !.stateNameMap = MapDelete(@, o.stateObjects[s].name),
                              !.states = SelectSeq(@, LAMBDA x : x # s)],
           thrown |-> FALSE]

(***************************************************************************)
(* GeneralizedAutomaton: an automaton object o whose edges all carry       *)
(* SYMBOL and a regular expression; re[e] is the regular expression of the *)
(* edge e, a position in rs, the RegularExpression objects created so far. *)
(***************************************************************************)
SYMBOL == "a"
StrGeneralized == <<"g", "e", "n", "e", "r", "a", "l", "i", "z", "e", "d", " ">>
StrStartName == <<"s", "t", "a", "r", "t">>
StrFinalName == <<"f", "i", "n", "a", "l">>

GeneralizedAutomaton(name) ==
  [o |-> ObjectAutomaton(name, DefaultSymbols), re |-> <<>>, rs |-> <<>>]

\* addEdge(from, to, re) on State objects, r being re: the regular expression
\* is added to the one of the edge from -> to when there is one.
gaAddEdge(g, from, to, r) ==
  IF from = Undefined THEN g
  ELSE IF objectGetEdge(g.o, from, to, SYMBOL) # Undefined
  THEN [g EXCEPT !.rs = RegularExpression(@, SUM,
                                          g.re[objectGetEdge(g.o, from, to, SYMBOL)], r),
                 !.re[objectGetEdge(g.o, from, to, SYMBOL)] = Len(g.rs) + 1]
  ELSE [g EXCEPT !.o = objectAddEdgeStates(@, from, to, SYMBOL),
                 !.re = Append(@, r)]

\* addEdge(from, to, new RegularExpression(word)).
gaAddEdgeWord(g, from, to, word) ==
  gaAddEdge([g EXCEPT !.rs = RegularExpression(@, WORD, word, Undefined)], from, to,
            Len(g.rs) + 1)

\* copyOf: the body of the loop over the states, from the edge from
\* startState on; s is the state of aut, newState its copy.
gaCopyStart(g, s, newState) ==
  IF s.start THEN gaAddEdgeWord(g, 1, newState, <<>>) ELSE g

gaCopyFinal(g, s, newState) ==
  IF s.final THEN gaAddEdgeWord(g, newState, 2, <<>>) ELSE g

\* copyOf: the loop over the states ss of aut.
RECURSIVE gaCopyStates(_, _)
gaCopyStates(g, ss) ==
  IF ss = <<>> THEN g
  ELSE Call(LAMBDA r : gaCopyStates(r, Tail(ss)),
            gaCopyFinal(
              gaCopyStart([g EXCEPT !.o = objectAddState(@, Head(ss).name, FALSE, FALSE, TRUE)],
                          Head(ss), Len(g.o.stateObjects) + 1),
              Head(ss), Len(g.o.stateObjects) + 1))

\* copyOf: the loop over the edges es of aut, added with the names of their
\* states in aut.
RECURSIVE gaCopyEdges(_, _, _)
gaCopyEdges(g, aut, es) ==
  IF es = <<>> THEN g
  ELSE Call(LAMBDA r : gaCopyEdges(r, aut, Tail(es)),
            gaAddEdgeWord(g, getStateByName(g.o, aut.states[Head(es).source].name),
                          getStateByName(g.o, aut.states[Head(es).sink].name),
                          <<Head(es).symbol>>))

\* GeneralizedAutomaton.copyOf(aut): startState is the state 1 and finalState
\* the state 2 of the result.
copyOf(aut) ==
  IF isEmpty(aut) THEN GeneralizedAutomaton(StrGeneralized \o aut.name)
  ELSE gaCopyEdges(
         gaCopyStates(
           [GeneralizedAutomaton(StrGeneralized \o aut.name) EXCEPT
              !.o = objectAddState(objectAddState(@, StrStartName, TRUE, FALSE, TRUE),
                                   StrFinalName, FALSE, TRUE, TRUE)],
           aut.states),
         aut, aut.edges)

\* [...a.states].find(s => !s.start && !s.final), or undefined.
removeStateOf(g) ==
  IF \E i \in DOMAIN g.o.states :
       ~g.o.stateObjects[g.o.states[i]].start /\ ~g.o.stateObjects[g.o.states[i]].final
  THEN g.o.states[CHOOSE i \in DOMAIN g.o.states :
                    /\ ~g.o.stateObjects[g.o.states[i]].start
                    /\ ~g.o.stateObjects[g.o.states[i]].final
                    /\ \A j \in 1..(i - 1) :
                         \/ g.o.stateObjects[g.o.states[j]].start
                         \/ g.o.stateObjects[g.o.states[j]].final]
  ELSE Undefined

isLoop(g, e) == g.o.edgeObjects[e].source = g.o.edgeObjects[e].sink

\* The first loop over removeState.edgesIn, on r = [g, loopRE]: the sum of
\* the regular expressions of the loops of removeState.
RECURSIVE gaLoopRE(_, _)
gaLoopRE(r, es) ==
  IF es = <<>> THEN r
  ELSE Call(LAMBDA x : gaLoopRE(x, Tail(es)),
            IF ~isLoop(r.g, Head(es)) THEN r
            ELSE IF r.loopRE = Undefined THEN [r EXCEPT !.loopRE = r.g.re[Head(es)]]
            ELSE [g |-> [r.g EXCEPT !.rs = RegularExpression(@, SUM, r.loopRE,
                                                            r.g.re[Head(es)])],
                  loopRE |-> Len(r.g.rs) + 1])

\* a.addEdge(edgeIn.source.name, edgeOut.sink.name, c.re), c = [rs, re]
\* being the regular expression built for the pair of edges.
gaAddEdgePair(g, edgeIn, edgeOut, c) ==
  gaAddEdge([g EXCEPT !.rs = c.rs],
            getStateByName(g.o, g.o.stateObjects[g.o.edgeObjects[edgeIn].source].name),
            getStateByName(g.o, g.o.stateObjects[g.o.edgeObjects[edgeOut].sink].name),
            c.re)

\* c.re.concat(r) for each r of rest in turn, c = [rs, re] being the regular
\* expression built so far: a chain of concat calls.
RECURSIVE concatNext(_, _)
concatNext(c, rest) ==
  IF rest = <<>> THEN c
  ELSE Call(LAMBDA x : concatNext(x, Tail(rest)), regexpConcat(c.rs, c.re, Head(rest)))

\* The body of the inner loop for one edgeIn and one edgeOut, neither a loop:
\* edgeIn.re.concat(edgeOut.re), or edgeIn.re.concat(loopRE.star())
\* .concat(edgeOut.re) with the star built before the first concat.
gaEliminatePair(g, loopRE, edgeIn, edgeOut) ==
  gaAddEdgePair(g, edgeIn, edgeOut,
                IF loopRE = Undefined
                THEN concatNext([rs |-> g.rs, re |-> g.re[edgeIn]], <<g.re[edgeOut]>>)
                ELSE concatNext([rs |-> RegularExpression(g.rs, STAR, loopRE, Undefined),
                                 re |-> g.re[edgeIn]],
                                <<Len(g.rs) + 1, g.re[edgeOut]>>))

\* The second loop over removeState.edgesIn and, within it, the one over
\* removeState.edgesOut: pairs is the sequence of the pairs they visit.
RECURSIVE gaEliminatePairs(_, _, _)
gaEliminatePairs(g, loopRE, pairs) ==
  IF pairs = <<>> THEN g
  ELSE Call(LAMBDA r : gaEliminatePairs(r, loopRE, Tail(pairs)),
            gaEliminatePair(g, loopRE, Head(pairs)[1], Head(pairs)[2]))

\* The pairs of an edge of ins and an edge of outs, in the order of the loops.
edgePairs(ins, outs) ==
  [k \in 1..(Len(ins) * Len(outs)) |->
     <<ins[((k - 1) \div Len(outs)) + 1], outs[((k - 1) % Len(outs)) + 1]>>]

\* a.deleteState(removeState).
gaDeleteState(g, s) == [g EXCEPT !.o = objectDeleteState(@, s).o]

\* One iteration of the while loop of equivalentRE after the first loop
\* gave r = [g, loopRE]; s is removeState.
gaEliminateFrom(r, s) ==
  gaDeleteState(
    gaEliminatePairs(r.g, r.loopRE,
                     edgePairs(SelectSeq(r.g.o.stateObjects[s].edgesIn,
                                         LAMBDA e : ~isLoop(r.g, e)),
                               SelectSeq(r.g.o.stateObjects[s].edgesOut,
                                         LAMBDA e : ~isLoop(r.g, e)))),
    s)

\* One iteration of the while loop of equivalentRE.
gaEliminate(g) ==
  gaEliminateFrom(gaLoopRE([g |-> g, loopRE |-> Undefined],
                           g.o.stateObjects[removeStateOf(g)].edgesIn),
                  removeStateOf(g))

\* What equivalentRE returns when the loop has ended or a is empty:
\* [rs, re], the objects created and the one returned.
equivalentREResult(g) ==
  IF Len(g.o.states) = 0 \/ Len(g.o.edges) = 0
  THEN [rs |-> RegularExpression(g.rs, EMPTY, Undefined, Undefined), re |-> Len(g.rs) + 1]
  ELSE [rs |-> g.rs, re |-> g.re[g.o.edges[1]]]

(***************************************************************************)
(* The program that mutates one automaton: a is built and taken apart with *)
(* addState, addEdge, deleteEdge, deleteEdgeFts and deleteState; states    *)
(* are referred to by their names, as the tests do.  res is the automaton  *)
(* before a deleteState, the State it was called on and whether it threw.  *)
(***************************************************************************)
MaxStateObjects == 3
MaxEdgeObjects == 2

InitObjects ==
  /\ a = ObjectAutomaton(DefaultName, DefaultSymbols)
  /\ b = Automaton(DefaultName, DefaultSymbols)
  /\ op = "build"
  /\ res = NoResult

\* The names given to addState: '', '0' and 'empty'.
ObjectNames == {<<>>, StrZero, State(<<>>, FALSE, FALSE).name}

\* The names of the states of a.
LiveNames == {a.stateObjects[s].name : s \in Range(a.states)}

\* a.addState(name, false, false, forceNew): the flags play no part here.
ObjectAddState ==
  /\ Len(a.stateObjects) < MaxStateObjects
  /\ \E name \in ObjectNames, forceNew \in BOOLEAN :
       a' = objectAddState(a, name, FALSE, FALSE, forceNew)
  /\ op' = "addState"
  /\ res' = NoResult
  /\ UNCHANGED b

\* a.addEdge(from, to, symbol) with the names of two states of a.
ObjectAddEdge ==
  /\ Len(a.edgeObjects) < MaxEdgeObjects
  /\ \E from \in LiveNames, to \in LiveNames, symbol \in Range(a.symbols) :
       a' = objectAddEdge(a, from, to, symbol)
  /\ op' = "addEdge"
  /\ res' = NoResult
  /\ UNCHANGED b

\* a.deleteEdge(e) with an edge of a.
ObjectDeleteEdge ==
  /\ \E e \in Range(a.edges) : a' = objectDeleteEdge(a, e)
  /\ op' = "deleteEdge"
  /\ res' = NoResult
  /\ UNCHANGED b

\* a.deleteEdgeFts(from, to, symbol) with the names of two states of a.
ObjectDeleteEdgeFts ==
  /\ \E from \in LiveNames, to \in LiveNames, symbol \in Range(a.symbols) :
       a' = objectDeleteEdgeFts(a, from, to, symbol)
  /\ op' = "deleteEdgeFts"
  /\ res' = NoResult
  /\ UNCHANGED b

\* a.deleteState(state) with a state of a or with the name of one: getState
\* gives the State itself or stateNameMap.get(name).
ObjectDeleteState ==
  /\ \E s \in Range(a.states) \cup {getStateByName(a, name) : name \in LiveNames} :
       /\ a' = objectDeleteState(a, s).o
       /\ res' = [before |-> a, state |-> s, thrown |-> objectDeleteState(a, s).thrown]
  /\ op' = "deleteState"
  /\ UNCHANGED b

NextObjects ==
  \/ ObjectAddState
  \/ ObjectAddEdge
  \/ ObjectDeleteEdge
  \/ ObjectDeleteEdgeFts
  \/ ObjectDeleteState

SpecObjects == InitObjects /\ [][NextObjects]_vars

(***************************************************************************)
(* The names of the states in a signature.  a is the number of states of   *)
(* an automaton, b the number of a state in the order of the depth first   *)
(* search; res is the name renameStatesDFS gives to that state, or the     *)
(* name constructFromSignature gives to it.                                *)
(***************************************************************************)
MaxNumberStates == 70

InitNames ==
  /\ a \in 1..MaxNumberStates
  /\ b \in 0..(a - 1)
  /\ op = "build"
  /\ res = NoResult

\* renameStatesDFS: totalDigits from a.states.size, then
\* a.renameState(s, Util.toBase62(count++, totalDigits)).
RenameStatesDFSName ==
  /\ op = "build"
  /\ op' = "renameStatesDFS"
  /\ res' = toBase62(b, TotalDigits(a))
  /\ UNCHANGED <<a, b>>

\* constructFromSignature: digitsPerState from finals.length, then
\* aResult.addState(Util.toBase62(i, digitsPerState), ...).
ConstructFromSignatureName ==
  /\ op = "build"
  /\ op' = "constructFromSignature"
  /\ res' = toBase62(b, TotalDigits(Len([i \in 1..a |-> "0"])))
  /\ UNCHANGED <<a, b>>

NextNames ==
  \/ RenameStatesDFSName
  \/ ConstructFromSignatureName

SpecNames == InitNames /\ [][NextNames]_vars

(***************************************************************************)
(* The program that builds regular expressions: a is rs, the objects       *)
(* created so far; res is the object the last call returned.               *)
(***************************************************************************)
MaxNodes == 4

InitRegExp ==
  /\ a = <<>>
  /\ b = Automaton(DefaultName, DefaultSymbols)
  /\ op = "build"
  /\ res = NoResult

\* RegularExpression.empty().
RegExpEmpty ==
  /\ Len(a) < MaxNodes
  /\ a' = RegularExpression(a, EMPTY, Undefined, Undefined)
  /\ op' = "empty"
  /\ res' = Len(a) + 1
  /\ UNCHANGED b

\* new RegularExpression(word) for the words 'E', 'a', 'b' and 'ab'.
RegExpWord ==
  /\ Len(a) < MaxNodes
  /\ \E word \in {<<"E">>, <<"a">>, <<"b">>, <<"a", "b">>} :
       a' = RegularExpression(a, WORD, word, Undefined)
  /\ op' = "word"
  /\ res' = Len(a) + 1
  /\ UNCHANGED b

\* r.star().
RegExpStar ==
  /\ Len(a) < MaxNodes
  /\ \E r \in DOMAIN a : a' = RegularExpression(a, STAR, r, Undefined)
  /\ op' = "star"
  /\ res' = Len(a) + 1
  /\ UNCHANGED b

\* r1.sum(r2); r1 and r2 may be one object.
RegExpSum ==
  /\ Len(a) < MaxNodes
  /\ \E r1 \in DOMAIN a, r2 \in DOMAIN a : a' = RegularExpression(a, SUM, r1, r2)
  /\ op' = "sum"
  /\ res' = Len(a) + 1
  /\ UNCHANGED b

\* r1.concat(r2); r1 and r2 may be one object.
RegExpConcat ==
  /\ Len(a) < MaxNodes
  /\ \E r1 \in DOMAIN a, r2 \in DOMAIN a :
       /\ a' = regexpConcat(a, r1, r2).rs
       /\ res' = regexpConcat(a, r1, r2).re
  /\ op' = "concat"
  /\ UNCHANGED b

NextRegExp ==
  \/ RegExpEmpty
  \/ RegExpWord
  \/ RegExpStar
  \/ RegExpSum
  \/ RegExpConcat

SpecRegExp == InitRegExp /\ [][NextRegExp]_vars

(***************************************************************************)
(* The program that parses one string: a is the string, res what parse     *)
(* returned or threw.                                                      *)
(***************************************************************************)
MaxInputLen == 3

ParseChars == <<"a", "b", "0", "E", "+", "(", ")", "*", ".", " ">>

InitParse ==
  /\ a \in WordsUpTo(ParseChars, MaxInputLen)
  /\ b = Automaton(DefaultName, DefaultSymbols)
  /\ op = "input"
  /\ res = NoResult

\* RegularExpression.parse(a).
Parse ==
  /\ op = "input"
  /\ res' = parse(a, DefaultSymbols)
  /\ op' = "parse"
  /\ UNCHANGED <<a, b>>

NextParse == Parse

SpecParse == InitParse /\ [][NextParse]_vars

(***************************************************************************)
(* The program that converts an automaton to a regular expression: b is    *)
(* built with addState and addEdge, then a = GeneralizedAutomaton.copyOf(b) *)
(* and a.equivalentRE(), whose while loop is taken one iteration at a      *)
(* time.  res holds the number of states copyOf gave a, the iterations     *)
(* done and, once equivalentRE has returned, the regular expression.       *)
(***************************************************************************)
MaxGeneralizedStates == 2
MaxGeneralizedEdges == 3

InitGeneralized ==
  /\ a = GeneralizedAutomaton(StrGeneralized \o DefaultName)
  /\ b = Automaton(DefaultName, DefaultSymbols)
  /\ op = "build"
  /\ res = NoResult

\* b.addState(name, start, final) with the names '0', '1', 'start' and 'final'.
GeneralizedAddState ==
  /\ op = "build"
  /\ \E name \in {StrZero, StrOne, StrStartName, StrFinalName},
        start \in BOOLEAN, final \in BOOLEAN :
       /\ addNextState(b, name, MaxGeneralizedStates)
       /\ b' = addState(b, name, start, final, FALSE)
  /\ UNCHANGED <<a, op, res>>

\* b.addEdge(from, to, symbol).
GeneralizedAddEdge ==
  /\ op = "build"
  /\ \E e \in newEdges(b, MaxGeneralizedEdges) : b' = addEdge(b, e.source, e.sink, e.symbol)
  /\ UNCHANGED <<a, op, res>>

\* a = GeneralizedAutomaton.copyOf(b).
CopyOf ==
  /\ op = "build"
  /\ a' = copyOf(b)
  /\ op' = "copyOf"
  /\ res' = [size |-> Len(a'.o.states), iterations |-> 0, removed |-> Undefined]
  /\ UNCHANGED b

\* a.equivalentRE(): one iteration of the while loop.
EquivalentRELoop ==
  /\ op \in {"copyOf", "loop"}
  /\ Len(a.o.states) > 2
  /\ removeStateOf(a) # Undefined
  /\ a' = gaEliminate(a)
  /\ op' = "loop"
  /\ res' = [size |-> res.size, iterations |-> res.iterations + 1,
             removed |-> removeStateOf(a)]
  /\ UNCHANGED b

\* a.equivalentRE(): the return, when a is empty or the loop has ended.
EquivalentREReturn ==
  /\ op \in {"copyOf", "loop"}
  /\ ~(Len(a.o.states) > 2)
  /\ \E r \in {equivalentREResult(a)} :
       /\ a' = [a EXCEPT !.rs = r.rs]
       /\ res' = [size |-> res.size, iterations |-> res.iterations,
                  removed |-> res.removed, re |-> r.re]
  /\ op' = "equivalentRE"
  /\ UNCHANGED b

NextGeneralized ==
  \/ GeneralizedAddState
  \/ GeneralizedAddEdge
  \/ CopyOf
  \/ EquivalentRELoop
  \/ EquivalentREReturn

SpecGeneralized == InitGeneralized /\ [][NextGeneralized]_vars

(***************************************************************************)
(* The program that asks a whether it accepts a word, with acceptsMemo and *)
(* acceptsMemoMap, while a is built with addState and addEdge.  b holds    *)
(* the two caches the constructor of a created; res is the word of the     *)
(* last call and the value it returned.                                    *)
(***************************************************************************)
MaxMemoStates == 1
MaxMemoEdges == 2
MaxMemoWordLen == 1

InitMemo ==
  /\ a = Automaton(DefaultName, DefaultSymbols)
  /\ b = [acceptsMemo |-> <<>>, acceptsMemoMap |-> <<>>]
  /\ op = "build"
  /\ res = NoResult

\* a.addState(name, start, final) with a name that is free.
MemoAddState ==
  /\ \E name \in {DecString(i) : i \in 0..(MaxMemoStates - 1)},
        start \in BOOLEAN, final \in BOOLEAN :
       /\ addNextState(a, name, MaxMemoStates)
       /\ a' = addState(a, name, start, final, FALSE)
  /\ op' = "build"
  /\ UNCHANGED <<b, res>>

\* a.addEdge(from, to, symbol).
MemoAddEdge ==
  /\ \E e \in newEdges(a, MaxMemoEdges) : a' = addEdge(a, e.source, e.sink, e.symbol)
  /\ op' = "build"
  /\ UNCHANGED <<b, res>>

\* a.acceptsMemo(word).
AcceptsMemo ==
  /\ \E word \in WordsUpTo(DefaultSymbols, MaxMemoWordLen) :
       /\ b' = [b EXCEPT !.acceptsMemo = memo(@, a, word).cache]
       /\ res' = [word |-> word, value |-> memo(b.acceptsMemo, a, word).value]
  /\ op' = "acceptsMemo"
  /\ UNCHANGED a

\* a.acceptsMemoMap(word).
AcceptsMemoMap ==
  /\ \E word \in WordsUpTo(DefaultSymbols, MaxMemoWordLen) :
       /\ b' = [b EXCEPT !.acceptsMemoMap = memoMap(@, a, word).cache]
       /\ res' = [word |-> word, value |-> memoMap(b.acceptsMemoMap, a, word).value]
  /\ op' = "acceptsMemoMap"
  /\ UNCHANGED a

NextMemo ==
  \/ MemoAddState
  \/ MemoAddEdge
  \/ AcceptsMemo
  \/ AcceptsMemoMap

SpecMemo == InitMemo /\ [][NextMemo]_vars

(***************************************************************************)
(* The program that calls addEdge with names and symbols that may be       *)
(* unknown: a is built with addState and addEdge, the names being '0' and  *)
(* '1' and the symbols those of the alphabet and 'c'.  res is the          *)
(* automaton before the last addEdge and whether the call threw.           *)
(***************************************************************************)
MaxFailStates == 2
MaxFailEdges == 2

InitFail ==
  /\ a = ObjectAutomaton(DefaultName, DefaultSymbols)
  /\ b = Automaton(DefaultName, DefaultSymbols)
  /\ op = "build"
  /\ res = NoResult

\* a.addState(name).
FailAddState ==
  /\ Len(a.stateObjects) < MaxFailStates
  /\ \E name \in {StrZero, StrOne} : a' = objectAddState(a, name, FALSE, FALSE, FALSE)
  /\ op' = "addState"
  /\ res' = NoResult
  /\ UNCHANGED b

\* a.addEdge(from, to, symbol), also with the name of no state and with a
\* symbol that is not in the alphabet.
FailAddEdge ==
  /\ Len(a.edgeObjects) < MaxFailEdges
  /\ \E from \in {StrZero, StrOne}, to \in {StrZero, StrOne},
        symbol \in Range(a.symbols) \cup {"c"} :
       /\ a' = objectAddEdge(a, from, to, symbol)
       /\ res' = [before |-> a,
                  thrown |-> objectAddEdgeThrows(a, getStateByName(a, from),
                                                 getStateByName(a, to), symbol)]
  /\ op' = "addEdge"
  /\ UNCHANGED b

NextFail ==
  \/ FailAddState
  \/ FailAddEdge

SpecFail == InitFail /\ [][NextFail]_vars

(***************************************************************************)
(* The program that works on automata over other alphabets than the        *)
(* default one: a is built with addState and addEdge over one of the       *)
(* alphabets 'ab', 'ba' and 'abc'.  b is a second automaton, created with  *)
(* the same symbols.                                                       *)
(***************************************************************************)
MaxAlphabetStates == 2
MaxAlphabetEdges == 2

Alphabets == {<<"a", "b">>, <<"b", "a">>, <<"a", "b", "c">>}

InitAlphabet ==
  /\ \E symbols \in Alphabets :
       /\ a = Automaton(DefaultName, symbols)
       /\ b = Automaton(<<"B">>, symbols)
  /\ op = "build"
  /\ res = NoResult

\* a.addState(name, start, final) with a name that is free.
AlphabetAddState ==
  /\ op = "build"
  /\ \E name \in {DecString(i) : i \in 0..(MaxAlphabetStates - 1)},
        start \in BOOLEAN, final \in BOOLEAN :
       /\ addNextState(a, name, MaxAlphabetStates)
       /\ a' = addState(a, name, start, final, FALSE)
  /\ UNCHANGED <<b, op, res>>

\* a.addEdge(from, to, symbol) with a symbol of the alphabet.
AlphabetAddEdge ==
  /\ op = "build"
  /\ \E e \in newEdges(a, MaxAlphabetEdges) : a' = addEdge(a, e.source, e.sink, e.symbol)
  /\ UNCHANGED <<b, op, res>>

NextAlphabet ==
  \/ AlphabetAddState
  \/ AlphabetAddEdge
  \/ Isomorphic

SpecAlphabet == InitAlphabet /\ [][NextAlphabet]_vars

(***************************************************************************)
(* The program that reduces an automaton more than once: a is built with   *)
(* addState and addEdge, res = a.reduce() is called, and a is built        *)
(* further and reduced again.  The states are named '0', '1', ... as they  *)
(* are added.                                                              *)
(***************************************************************************)
MaxReduceStates == 3
MaxReduceEdges == 2

InitReduce ==
  /\ a = Automaton(DefaultName, DefaultSymbols)
  /\ b = Automaton(DefaultName, DefaultSymbols)
  /\ op = "build"
  /\ res = NoResult

\* a.addState(name, start, final) with the next name.
ReduceAddState ==
  /\ addNextState(a, DecString(Len(a.states)), MaxReduceStates)
  /\ \E start \in BOOLEAN, final \in BOOLEAN :
       a' = addState(a, DecString(Len(a.states)), start, final, FALSE)
  /\ op' = "build"
  /\ UNCHANGED <<b, res>>

\* a.addEdge(from, to, symbol).
ReduceAddEdge ==
  /\ \E e \in newEdges(a, MaxReduceEdges) : a' = addEdge(a, e.source, e.sink, e.symbol)
  /\ op' = "build"
  /\ UNCHANGED <<b, res>>

\* res = a.reduce(): Graph.dfs leaves its marks on the states of a.
Reduce ==
  /\ op = "build"
  /\ res' = reduce(a)
  /\ a' = reduceMarks(a)
  /\ op' = "reduce"
  /\ UNCHANGED b

NextReduce ==
  \/ ReduceAddState
  \/ ReduceAddEdge
  \/ Reduce

SpecReduce == InitReduce /\ [][NextReduce]_vars

(***************************************************************************)
(* normalize: one start state without incoming edges and one final state   *)
(* without outgoing edges.  The fields normalized and emptyWordAccepted it *)
(* sets are read by no function that decides acceptance.                   *)
(***************************************************************************)
StrNormalized == <<"n", "o", "r", "m", "a", "l", "i", "z", "e", "d", " ">>

\* normalize: the new start state, when there is more than one start state
\* or the start state has incoming edges.
normalizeStarts(aResult, startStates) ==
  IF Len(startStates) > 1 \/ edgesIn(aResult, startStates[1]) # <<>>
  THEN rewireStarts(addState(aResult, StrStartName, TRUE, FALSE, TRUE),
                    addStateResult(aResult, StrStartName, TRUE), startStates)
  ELSE aResult

\* normalize: the new final state, when there is more than one final state
\* or the final state has outgoing edges.
normalizeFinals(aResult, finalStates) ==
  IF Len(finalStates) > 1 \/ edgesOut(aResult, finalStates[1]) # <<>>
  THEN rewireFinals(addState(aResult, StrFinalName, FALSE, TRUE, TRUE),
                    addStateResult(aResult, StrFinalName, TRUE), finalStates)
  ELSE aResult

normalizeStarted(aResult) == normalizeFinals(aResult, SeqOfSet(getFinalStates(aResult)))

\* normalize from the assignment of aResult on; name is a.name.
normalizeReduced(aResult, name) ==
  IF isEmpty(aResult) THEN aResult
  ELSE [Call(reduce,
             Call(normalizeStarted,
                  normalizeStarts(aResult, SeqOfSet(getStartStates(aResult)))))
          EXCEPT !.name = StrNormalized \o name]

normalize(this) == normalizeReduced(reduce(this), this.name)

(***************************************************************************)
(* The program that completes or normalizes an automaton: a is built with  *)
(* addState and addEdge, its states being named '0' and 'err', then res =  *)
(* a.complete() or res = a.normalize().                                    *)
(***************************************************************************)
MaxCompleteStates == 2
MaxCompleteEdges == 3

InitComplete ==
  /\ a = Automaton(DefaultName, DefaultSymbols)
  /\ b = Automaton(DefaultName, DefaultSymbols)
  /\ op = "build"
  /\ res = NoResult

\* a.addState(name, start, final) with a name that is free.
CompleteAddState ==
  /\ op = "build"
  /\ \E name \in {StrZero, StrErr}, start \in BOOLEAN, final \in BOOLEAN :
       /\ addNextState(a, name, MaxCompleteStates)
       /\ a' = addState(a, name, start, final, FALSE)
  /\ UNCHANGED <<b, op, res>>

\* a.addEdge(from, to, symbol).
CompleteAddEdge ==
  /\ op = "build"
  /\ \E e \in newEdges(a, MaxCompleteEdges) : a' = addEdge(a, e.source, e.sink, e.symbol)
  /\ UNCHANGED <<b, op, res>>

\* res = a.complete().
Complete ==
  /\ op = "build"
  /\ res' = complete(a)
  /\ a' = reduceMarks(a)
  /\ op' = "complete"
  /\ UNCHANGED b

\* res = a.normalize().
Normalize ==
  /\ op = "build"
  /\ res' = normalize(a)
  /\ a' = reduceMarks(a)
  /\ op' = "normalize"
  /\ UNCHANGED b

NextComplete ==
  \/ CompleteAddState
  \/ CompleteAddEdge
  \/ Complete
  \/ Normalize

SpecComplete == InitComplete /\ [][NextComplete]_vars

(***************************************************************************)
(* Renaming the states of an automaton whose states carry any names: a is  *)
(* the automaton, renamed in place; res is the automaton before the call.  *)
(***************************************************************************)
MaxRenameStates == 2
MaxRenameEdges == 2
StrQ == <<"q">>
RenameNames == {StrZero, StrOne, StrQ}

InitRename ==
  /\ a = Automaton(DefaultName, DefaultSymbols)
  /\ b = Automaton(DefaultName, DefaultSymbols)
  /\ op = "build"
  /\ res = NoResult

\* a.addState(name, start, final) with a name that is not used yet.
RenameAddState ==
  /\ op = "build"
  /\ \E name \in RenameNames, start \in BOOLEAN, final \in BOOLEAN :
       /\ addNextState(a, name, MaxRenameStates)
       /\ a' = addState(a, name, start, final, FALSE)
  /\ UNCHANGED <<b, op, res>>

\* a.addEdge(from, to, symbol).
RenameAddEdge ==
  /\ op = "build"
  /\ \E e \in newEdges(a, MaxRenameEdges) : a' = addEdge(a, e.source, e.sink, e.symbol)
  /\ UNCHANGED <<b, op, res>>

\* a.renameStates(permutation) with a permutation of 0..n-1, or
\* a.renameStates() without one.
RenameStates ==
  /\ op = "build"
  /\ Len(a.states) > 0
  /\ \E p \in Range(permutations(Len(a.states))) \cup {<<>>} :
       /\ a' = renameStates(a, p)
       /\ res' = [before |-> a, permutation |-> p]
  /\ op' = "renameStates"
  /\ UNCHANGED b

\* a.renameStatesDFS(), when it does not throw.
RenameStatesDFS ==
  /\ op = "build"
  /\ Len(a.states) > 0
  /\ ~renameStatesDFSThrows(a)
  /\ a' = renameStatesDFS(a)
  /\ res' = [before |-> a, permutation |-> <<>>]
  /\ op' = "renameStatesDFS"
  /\ UNCHANGED b

NextRename ==
  \/ RenameAddState
  \/ RenameAddEdge
  \/ RenameStates
  \/ RenameStatesDFS

SpecRename == InitRename /\ [][NextRename]_vars

(***************************************************************************)
(* Operations on operands over any alphabet: a and b are built over the    *)
(* same alphabet, res is the result of the operation or the error thrown.  *)
(***************************************************************************)
MaxOperandStates == 1

\* b.addState(name, start, final) while b has fewer than MaxOperandStates
\* states.
OperandsAddStateB ==
  /\ Len(b.states) < MaxOperandStates
  /\ PairAddStateB

\* a1.intersect(c2) for the complement c2 of the second operand.
differenceOf(a1, c2) ==
  IF intersectThrows(a1, c2) THEN TypeError ELSE intersect(a1, c2)

\* res = a.difference(b): complement minimizes b, which leaves marks on it.
Difference ==
  /\ op = "build"
  /\ op' = "difference"
  /\ res' = differenceOf(a, Call(complement, b))
  /\ b' = minimizeMarks(b, Hopcroft)
  /\ UNCHANGED a

\* res = a.reverse().
Reverse ==
  /\ op = "build"
  /\ op' = "reverse"
  /\ res' = reverse(a)
  /\ UNCHANGED <<a, b>>

\* res = a.copy().
Copy ==
  /\ op = "build"
  /\ op' = "copy"
  /\ res' = copy(a)
  /\ UNCHANGED <<a, b>>

NextOperands ==
  \/ PairAddStateA
  \/ PairAddEdgeA
  \/ OperandsAddStateB
  \/ PairAddEdgeB
  \/ Union
  \/ Concat
  \/ Intersect
  \/ Difference
  \/ Reverse
  \/ Reduce
  \/ Copy
  \/ MakeDeterministic
  \/ Minimize
  \/ Complete

SpecOperands == InitAlphabet /\ [][NextOperands]_vars

(***************************************************************************)
(* Properties.                                                             *)
(***************************************************************************)
\* a0 and b0 accept the same words.
sameLanguage(a0, b0) == \A w \in Words : accepts(a0, w) = accepts(b0, w)

\* w = u v with u accepted by a0 and v accepted by b0.
inConcat(a0, b0, w) ==
  \E i \in 0..Len(w) : accepts(a0, SubSeq(w, 1, i)) /\ accepts(b0, SubSeq(w, i + 1, Len(w)))

\* w is a concatenation of zero or more words accepted by a0.
RECURSIVE inStar(_, _)
inStar(a0, w) ==
  \/ w = <<>>
  \/ \E i \in 1..Len(w) : accepts(a0, SubSeq(w, 1, i)) /\ inStar(a0, SubSeq(w, i + 1, Len(w)))

\* Every state has a successor for every symbol.
isComplete(a0) == \A s \in StateIds(a0) : \A c \in Range(a0.symbols) : delta(a0, s, c) # {}

\* C1: a.equivalent(b) returns true if and only if a and b accept the same words.
EquivalentIffSameLanguage ==
  op = "equivalent" => (res = sameLanguage(a, b))

\* equivalent answers true for two automata of different size that accept aa.
EquivalentReached ==
  /\ op = "equivalent" /\ res = TRUE
  /\ Len(a.states) < Len(b.states)
  /\ accepts(a, <<"a", "a">>)

\* C2: a.minimize() (Hopcroft) accepts the words a accepts.
MinimizePreservesLanguage ==
  op = Hopcroft => sameLanguage(res, a)

\* A non-deterministic automaton accepting ab has been minimized.
MinimizeReached ==
  op = Hopcroft /\ ~isDeterministic(a) /\ accepts(res, <<"a", "b">>)

\* C3: a.minimize('Hopcroft') and a.minimize('Brzozowski') are equivalent and
\* have the same signature.
HopcroftEquivalentBrzozowski ==
  op = "minimizeBoth" => (res.equivalent /\ res.signatureHop = res.signatureBrz)

\* Both algorithms have minimized a non-deterministic automaton accepting a.
MinimizeBothReached ==
  /\ op = "minimizeBoth" /\ res.equivalent /\ res.signatureHop # NoSignature
  /\ ~isDeterministic(a) /\ accepts(a, <<"a">>)

\* C4: a.makeDeterministic() accepts the words a accepts.
DeterminizationPreservesLanguage ==
  op = "makeDeterministic" => sameLanguage(res, a)

\* The subset construction has built more states than its operand has.
DeterminizationReached ==
  /\ op = "makeDeterministic" /\ ~isDeterministic(a)
  /\ Len(res.states) > Len(a.states)
  /\ accepts(res, <<"a">>)

\* C5 as claimed: a.makeDeterministic() is deterministic, for every automaton a.
MakeDeterministicIsDeterministic ==
  op = "makeDeterministic" => isDeterministic(res)

\* C6 as claimed: a.union(b) accepts w if and only if a or b accepts w.
UnionAcceptsEither ==
  op = "union" => \A w \in Words : accepts(res, w) = (accepts(a, w) \/ accepts(b, w))

\* C7 as claimed: a.concat(b) accepts w if and only if w = u v with u accepted
\* by a and v by b, also when a and b are one object.
ConcatAcceptsSplit ==
  /\ op = "concat" => \A w \in Words : accepts(res, w) = inConcat(a, b, w)
  /\ op = "concatSelf" => \A w \in Words : accepts(res, w) = inConcat(a, a, w)

\* C8 as claimed: a.intersect(b) accepts w if and only if a and b accept w, and
\* has one state per pair of states, start if and only if both are start and
\* final if and only if both are final.
IntersectAcceptsBoth ==
  op = "intersect" =>
    /\ \A w \in Words : accepts(res, w) = (accepts(a, w) /\ accepts(b, w))
    /\ Len(res.states) = Len(a.states) * Len(b.states)
    /\ \A i \in StateIds(a), j \in StateIds(b) :
         LET s == getStateByName(res, a.states[i].name \o StrComma \o b.states[j].name)
         IN /\ s # Undefined
            /\ res.states[s].start = (a.states[i].start /\ b.states[j].start)
            /\ res.states[s].final = (a.states[i].final /\ b.states[j].final)

\* C9: a.star() accepts the empty word, it accepts w if and only if w is a
\* concatenation of zero or more words a accepts, and a.star().star() is
\* equivalent to a.star().
StarAcceptsIterations ==
  op = "star" =>
    /\ accepts(res, <<>>)
    /\ \A w \in Words : accepts(res, w) = inStar(a, w)
    /\ equivalent(star(res), reduceMarks(res))

\* star accepts the empty word and aa where its operand accepts neither.
StarReached ==
  /\ op = "star"
  /\ ~accepts(a, <<>>) /\ accepts(res, <<>>)
  /\ ~accepts(a, <<"a", "a">>) /\ accepts(res, <<"a", "a">>)

\* C10: a.complement() accepts w if and only if a does not, and is complete
\* and deterministic.
ComplementAcceptsOthers ==
  op = "complement" =>
    /\ \A w \in Words : accepts(res, w) = ~accepts(a, w)
    /\ isDeterministic(res)
    /\ isComplete(res)

\* The complement of a non-deterministic automaton accepting a accepts b.
ComplementReached ==
  /\ op = "complement" /\ ~isDeterministic(a)
  /\ accepts(a, <<"a">>) /\ accepts(res, <<"b">>)

\* C14: after any sequence of addState and deleteState calls (and of the
\* edge operations), every state s of states is the state that stateNameMap
\* holds under s.name, and no two states of states have the same name.
StateNameMapConsistent ==
  /\ \A s \in Range(a.states) : getStateByName(a, a.stateObjects[s].name) = s
  /\ \A s, t \in Range(a.states) :
       a.stateObjects[s].name = a.stateObjects[t].name => s = t

\* C15 as claimed: after any sequence of addState, addEdge, deleteEdge,
\* deleteEdgeFts and deleteState calls, every edge e of edges has its source
\* and its sink in states, is in the edgesOut of its source and in the
\* edgesIn of its sink, and its sink is in deltaMap[e.symbol][e.source].
EdgesConsistent ==
  \A e \in Range(a.edges) :
    /\ a.edgeObjects[e].source \in Range(a.states)
    /\ a.edgeObjects[e].sink \in Range(a.states)
    /\ e \in Range(a.stateObjects[a.edgeObjects[e].source].edgesOut)
    /\ e \in Range(a.stateObjects[a.edgeObjects[e].sink].edgesIn)
    /\ \E en \in Range(a.deltaMap[a.edgeObjects[e].symbol]) :
         en.key = a.edgeObjects[e].source /\ a.edgeObjects[e].sink \in Range(en.value)

\* C16 as claimed: deleteState(s) removes every edge incident to s and then
\* s.  Afterwards s is not in states and not in stateNameMap, no edge has s
\* as source or sink, no remaining state has an incident edge in its
\* edgesIn or edgesOut, s is in no set of deltaMap, and the other states and
\* edges are as before.
DeleteStateFrame ==
  op = "deleteState" =>
    LET s == res.state
        before == res.before
        incident == {e \in Range(before.edges) :
                       before.edgeObjects[e].source = s \/ before.edgeObjects[e].sink = s}
    IN /\ s # Undefined /\ ~res.thrown
       /\ s \notin Range(a.states)
       /\ \A en \in Range(a.stateNameMap) : en.state # s
       /\ \A e \in Range(a.edges) :
            a.edgeObjects[e].source # s /\ a.edgeObjects[e].sink # s
       /\ \A c \in Range(a.symbols) : \A en \in Range(a.deltaMap[c]) :
            s \notin Range(en.value)
       /\ a.states = SelectSeq(before.states, LAMBDA u : u # s)
       /\ a.edges = SelectSeq(before.edges, LAMBDA e : e \notin incident)
       /\ a.edgeObjects = before.edgeObjects
       /\ \A u \in Range(a.states) :
            /\ a.stateObjects[u].name = before.stateObjects[u].name
            /\ a.stateObjects[u].edgesIn =
                 SelectSeq(before.stateObjects[u].edgesIn, LAMBDA e : e \notin incident)
            /\ a.stateObjects[u].edgesOut =
                 SelectSeq(before.stateObjects[u].edgesOut, LAMBDA e : e \notin incident)
            /\ getStateByName(a, a.stateObjects[u].name)
                 = getStateByName(before, a.stateObjects[u].name)

RECURSIVE power62(_)
power62(k) == IF k = 0 THEN 1 ELSE 62 * power62(k - 1)

\* floor(log62(n)) and ceil(log62(n)) for 1 <= n < 62^3.
floorLog62(n) == CHOOSE k \in 0..2 : power62(k) <= n /\ n < power62(k + 1)
ceilLog62(n) == CHOOSE k \in 0..3 : n <= power62(k) /\ (k = 0 \/ power62(k - 1) < n)

\* C18 as claimed: the name of a state in renameStatesDFS and in
\* constructFromSignature has ceil(log62(|states|)) + 1 Base62 digits.
NameWidthCeil ==
  op \in {"renameStatesDFS", "constructFromSignature"} => Len(res) = ceilLog62(a) + 1

\* C18 as amended: the name of a state in renameStatesDFS and in
\* constructFromSignature has floor(log62(|states|)) + 1 Base62 digits, the
\* same width in both.
NameWidthFloor ==
  op \in {"renameStatesDFS", "constructFromSignature"} => Len(res) = floorLog62(a) + 1

\* The last state of an automaton of 62 states was named: two digits.
NameWidthReached ==
  /\ op = "renameStatesDFS" /\ a = 62 /\ b = 61
  /\ res = <<"0", "z">>

\* C19 as claimed: a.isomorphic(a.copy().renameStates(p)) returns true for
\* every automaton a and every permutation p of 0..|states|-1.
IsomorphicToRenamedCopy ==
  op = "isomorphic" => res = [value |-> TRUE]

\* The language a regular expression denotes: Empty nothing, Word its word,
\* Sum the union, Concat the concatenation, Star the Kleene star.
RECURSIVE denotes(_, _, _)
denotes(rs, r, w) ==
  IF rs[r].type = EMPTY THEN FALSE
  ELSE IF rs[r].type = WORD THEN w = rs[r].word
  ELSE IF rs[r].type = SUM THEN denotes(rs, rs[r].left, w) \/ denotes(rs, rs[r].right, w)
  ELSE IF rs[r].type = CONCAT
  THEN \E i \in 0..Len(w) : /\ denotes(rs, rs[r].left, SubSeq(w, 1, i))
                            /\ denotes(rs, rs[r].right, SubSeq(w, i + 1, Len(w)))
  ELSE \/ w = <<>>
       \/ \E i \in 1..Len(w) : /\ denotes(rs, rs[r].star, SubSeq(w, 1, i))
                               /\ denotes(rs, r, SubSeq(w, i + 1, Len(w)))

\* C13 as claimed: every regular expression built from Empty and Word
\* leaves with star, sum and concat (an operand may be used twice) accepts
\* exactly the words of the language it denotes.
RegExpAcceptsDenoted ==
  \A r \in DOMAIN a : \A w \in Words :
    accepts(a[r].equivalentAutomaton, w) = denotes(a, r, w)

\* C20 as claimed: parse accepts the token '0' as a factor: parse('0') and
\* parse('a+0') return a regular expression, and the one parse('0') returns
\* accepts no word.
ParseZero ==
  (op = "parse" /\ a \in {<<"0">>, <<"a", "+", "0">>})
    => /\ "error" \notin DOMAIN res
       /\ a = <<"0">> => \A w \in Words : ~accepts(res.rs[res.re].equivalentAutomaton, w)

\* C11 as claimed: for every automaton b, whatever the names of its states,
\* the regular expression copyOf(b).equivalentRE() denotes the language of
\* b: its equivalentAutomaton accepts exactly the words b accepts.
EquivalentREDenotes ==
  op = "equivalentRE"
    => \A w \in Words : accepts(a.rs[res.re].equivalentAutomaton, w) = accepts(b, w)

\* C12 as claimed: every iteration of the state elimination removes one
\* state that is neither start nor final, so that the number of states
\* falls by one each time and the loop ends; the boundary states start and
\* final stay; and at the return no edge is left, or exactly one that goes
\* from start to final.
EliminationTerminates ==
  (op \in {"copyOf", "loop", "equivalentRE"} /\ ~isEmpty(b))
    => /\ Len(a.o.states) = res.size - res.iterations
       /\ {1, 2} \subseteq Range(a.o.states)
       /\ res.removed \notin {1, 2}
       /\ op = "equivalentRE"
            => \/ Len(a.o.edges) = 0
               \/ /\ Len(a.o.edges) = 1
                  /\ a.o.edgeObjects[a.o.edges[1]].source = 1
                  /\ a.o.edgeObjects[a.o.edges[1]].sink = 2

\* C21 as claimed: parse returns a regular expression only when every token
\* up to the end sentinel has been consumed: when it does not throw, the
\* position it stopped at is the one of the END token.
ParseConsumesAll ==
  (op = "parse" /\ "error" \notin DOMAIN res)
    => tokenize(replaced(a, DefaultSymbols), DefaultSymbols).tokens[res.pos].type = END

\* C22 as claimed: the memoized functions agree with the automaton as it
\* is now: what acceptsMemo(w) and acceptsMemoMap(w) return is accepts(w),
\* whatever calls and mutations came before.
MemoCoherent ==
  op \in {"acceptsMemo", "acceptsMemoMap"} => res.value = accepts(a, res.word)

\* C23 as claimed: an addEdge that throws changes nothing: states, edges,
\* deltaMap and the edgesIn and edgesOut of every state are as before the
\* call.
AddEdgeFailureFrame ==
  (op = "addEdge" /\ res.thrown)
    => /\ a.states = res.before.states
       /\ a.edges = res.before.edges
       /\ a.deltaMap = res.before.deltaMap
       /\ a.stateObjects = res.before.stateObjects

\* C24 as claimed: the equivalentAutomaton of a regular expression is never
\* modified once the object is built: whatever is built next from it, its
\* name, its states with their names and flags and its edges stay the same.
CachedAutomatonFrozen ==
  [][\A r \in DOMAIN a :
       /\ a'[r].equivalentAutomaton.name = a[r].equivalentAutomaton.name
       /\ a'[r].equivalentAutomaton.edges = a[r].equivalentAutomaton.edges
       /\ [s \in DOMAIN a'[r].equivalentAutomaton.states |->
             <<a'[r].equivalentAutomaton.states[s].name,
               a'[r].equivalentAutomaton.states[s].start,
               a'[r].equivalentAutomaton.states[s].final>>]
          = [s \in DOMAIN a[r].equivalentAutomaton.states |->
               <<a[r].equivalentAutomaton.states[s].name,
                 a[r].equivalentAutomaton.states[s].start,
                 a[r].equivalentAutomaton.states[s].final>>]]_vars

\* C25 as claimed: the alphabet of an automaton never changes: no step, an
\* isomorphic call in particular, changes alphabet.symbols or their order,
\* so that the signature of a is the same before and after the call.
AlphabetImmutable ==
  [][/\ a'.symbols = a.symbols
     /\ op' = "isomorphic" => signatureDFS(a') = signatureDFS(a)]_vars

\* The states of a0 that a path of edges leads to from a state of S (forward)
\* or that a path leads from to a state of S (not forward), S included.
RECURSIVE pathClosure(_, _, _, _)
pathClosure(a0, S, forward, n) ==
  IF n = 0 THEN S
  ELSE pathClosure(a0,
                   S \cup {IF forward THEN a0.edges[i].sink ELSE a0.edges[i].source :
                             i \in {j \in DOMAIN a0.edges :
                                      IF forward THEN a0.edges[j].source \in S
                                      ELSE a0.edges[j].sink \in S}},
                   forward, n - 1)

usefulStates(a0) ==
  pathClosure(a0, getStartStates(a0), TRUE, Len(a0.states))
    \cap pathClosure(a0, getFinalStates(a0), FALSE, Len(a0.states))

\* C26 as claimed: whenever reduce is called on a, also after earlier calls
\* and mutations of a, the result has exactly the states of a that a start
\* state reaches and that reach a final state, with their flags, and exactly
\* the edges of a between two of them.
ReduceKeepsUseful ==
  op = "reduce"
    => /\ {<<res.states[i].name, res.states[i].start, res.states[i].final>> :
              i \in DOMAIN res.states}
          = {<<a.states[s].name, a.states[s].start, a.states[s].final>> :
               s \in usefulStates(a)}
       /\ {<<res.states[res.edges[i].source].name, res.states[res.edges[i].sink].name,
               res.edges[i].symbol>> : i \in DOMAIN res.edges}
          = {<<a.states[a.edges[i].source].name, a.states[a.edges[i].sink].name,
                a.edges[i].symbol>> :
               i \in {j \in DOMAIN a.edges :
                        /\ a.edges[j].source \in usefulStates(a)
                        /\ a.edges[j].sink \in usefulStates(a)}}

\* C27 as claimed: for every automaton a, whatever the names of its states,
\* a.complete() accepts exactly the words a accepts.
CompletePreservesLanguage ==
  op = "complete" => \A w \in Words : accepts(res, w) = accepts(a, w)

\* C28 as claimed: for every automaton a, a.normalize() accepts exactly the
\* words a accepts, the empty word included.
NormalizePreservesLanguage ==
  op = "normalize" => \A w \in Words : accepts(res, w) = accepts(a, w)

\* The states of a0 that the first start state reaches are all its states.
allReachable(a0) ==
  /\ getStartStates(a0) # {}
  /\ pathClosure(a0, {SeqOfSet(getStartStates(a0))[1]}, TRUE, Len(a0.states))
       = StateIds(a0)

\* Every state of a0 is registered under its name, and only the states are.
registered(a0) ==
  /\ \A s \in StateIds(a0) : getStateByName(a0, a0.states[s].name) = s
  /\ Len(a0.stateNameMap) = Len(a0.states)
  /\ \A s, t \in StateIds(a0) : a0.states[s].name = a0.states[t].name => s = t

\* C29 as claimed: after renameStates with a valid permutation or with none,
\* and after renameStatesDFS on an automaton whose states are all reachable
\* from the start state, every state is registered under its new name, the
\* name map has as many entries as there are states and the names are
\* pairwise distinct, also when new names are old names of other states.
RenamedStatesRegistered ==
  (\/ op = "renameStates"
   \/ op = "renameStatesDFS" /\ allReachable(res.before))
    => registered(a)

\* C30 as claimed: union, concat, intersect, difference, reverse, reduce,
\* copy, makeDeterministic, minimize and complete succeed for operands over
\* any alphabet and return an automaton over the alphabet of the operands.
OperationKeepsAlphabet ==
  op # "build" => ("error" \notin DOMAIN res /\ res.symbols = a.symbols)

====
